---------------------------- MODULE Spec2Model ----------------------------
(***************************************************************************)
(* Model of the SmartOrchestrator (src/orchestrator/app/orchestrator.py): *)
(* the agent registry, the skill-keyword table and the capability index,  *)
(* the single-agent workflow (analyze -> route) behind process_request    *)
(* and the multi-agent workflow (analyze -> plan -> execute* -> aggregate) *)
(* behind process_multi_agent_request.                                     *)
(*                                                                         *)
(* Text is a sequence of one-character strings, so that lower(), split(),  *)
(* replace(), the regular expressions and the substring tests of the code  *)
(* are computed, not assumed.  Scores are kept in tenths (1.5 is 15) and   *)
(* confidences in hundredths (0.3 is 30), which is exact for every number  *)
(* the code adds.  Python dicts are sequences of entries in insertion      *)
(* order.  Registry operations run without an await between their reads    *)
(* and writes and are one step each; a request is a chain of steps with    *)
(* the event loop free to run registry operations between them (every      *)
(* workflow node and every remote call is awaited).                        *)
(***************************************************************************)
EXTENDS Integers, Sequences, FiniteSets, TLC

VARIABLES
    agents,               \* self.agents: <<[id, card]>> in insertion order
    skill_keywords,       \* self.skill_keywords: <<[name, keywords]>>
    capability_registry,  \* self.capability_registry: <<[cap, agent_ids]>>
    hashSeed,             \* the process's string-hash seed (set iteration order)
    pc,                   \* where the request in flight stands
    request,              \* the text handed to the public operation
    state,                \* RouterState of the single-agent workflow
    mstate,               \* MultiAgentRouterState of the multi-agent workflow
    fwd,                  \* the remote call in flight (_forward_request_to_agent)
    sent,                 \* message/send calls made for this request: <<[endpoint, task]>>
    ops,                  \* registry operations run since this request came in
    last_call,            \* the registry call that has just returned, if any
    result,               \* what the public operation returned
    events                \* what the executor's call in progress, or its last
                          \* call, has put on the event queue

vars == <<agents, skill_keywords, capability_registry, hashSeed, pc, request,
          state, mstate, fwd, sent, ops, last_call, result, events>>

-----------------------------------------------------------------------------
(* Text *)

UpperChars == <<"A","B","C","D","E","F","G","H","I","J","K","L","M",
                "N","O","P","Q","R","S","T","U","V","W","X","Y","Z">>
LowerChars == <<"a","b","c","d","e","f","g","h","i","j","k","l","m",
                "n","o","p","q","r","s","t","u","v","w","x","y","z">>
Digits == {"0","1","2","3","4","5","6","7","8","9"}
Whitespace == {" ", "\n", "\t"}

\* str.lower() on one character
LowerChar(c) ==
    IF \E i \in 1..26 : UpperChars[i] = c
    THEN LowerChars[CHOOSE i \in 1..26 : UpperChars[i] = c]
    ELSE c

\* str.lower()
Lower(s) == [i \in 1..Len(s) |-> LowerChar(s[i])]

\* sub in s
Contains(sub, s) ==
    \E i \in 0..(Len(s) - Len(sub)) : SubSeq(s, i + 1, i + Len(sub)) = sub

\* str.replace(a, b) for single characters a, b
ReplaceChar(s, a, b) == [i \in 1..Len(s) |-> IF s[i] = a THEN b ELSE s[i]]

\* x in list
InSeq(x, q) == \E i \in 1..Len(q) : q[i] = x

IsNotSpace(c) == c \notin Whitespace
\* \w of the re module, on the characters the model uses
IsWordChar(c) ==
    \/ c \in Digits
    \/ c = "_"
    \/ \E i \in 1..26 : UpperChars[i] = c \/ LowerChars[i] = c

InClass(c, class) == IF class = "word" THEN IsWordChar(c) ELSE IsNotSpace(c)

\* Maximal runs of the characters of a class, left to right.
RECURSIVE Runs(_, _, _, _)
Runs(s, i, cur, class) ==
    IF i > Len(s)
    THEN IF cur = <<>> THEN <<>> ELSE <<cur>>
    ELSE IF InClass(s[i], class)
         THEN Runs(s, i + 1, Append(cur, s[i]), class)
         ELSE (IF cur = <<>> THEN <<>> ELSE <<cur>>) \o Runs(s, i + 1, <<>>, class)

\* str.split()
Split(s) == Runs(s, 1, <<>>, "nonspace")

\* re.findall(r'\b\w{3,}\b', s): the maximal runs of word characters of length >= 3
FindWords3(s) == SelectSeq(Runs(s, 1, <<>>, "word"), LAMBDA w : Len(w) >= 3)

\* list[:n]
Take(q, n) == SubSeq(q, 1, IF Len(q) < n THEN Len(q) ELSE n)

\* The list without later repeats of an element (append-if-absent, in order).
Dedup(q) ==
    LET firsts == SelectSeq([i \in 1..Len(q) |-> i],
                            LAMBDA i : \A j \in 1..(i - 1) : q[j] # q[i])
    IN  [k \in 1..Len(firsts) |-> q[firsts[k]]]

RECURSIVE Reverse(_)
Reverse(q) == IF q = <<>> THEN <<>> ELSE Append(Reverse(Tail(q)), Head(q))

\* Concatenation of a sequence of sequences
RECURSIVE Flatten(_)
Flatten(qq) == IF qq = <<>> THEN <<>> ELSE Head(qq) \o Flatten(Tail(qq))

Min(a, b) == IF a < b THEN a ELSE b

-----------------------------------------------------------------------------
(* The remote agents: what each endpoint's discovery path serves *)

T_fx_rate == <<"f", "x", "_", "r", "a", "t", "e">>
T_sum     == <<"s", "u", "m">>
T_usd     == <<"u", "s", "d">>
T_convert == <<"c", "o", "n", "v", "e", "r", "t">>
T_add     == <<"a", "d", "d">>
T_Eur     == <<"E", "u", "r">>
T_tax     == <<"t", "a", "x">>
T_Rate    == <<"R", "a", "t", "e">>
T_data    == <<"d", "a", "t", "a">>
N_Fx      == <<"F", "x">>
N_Calc    == <<"C", "a", "l", "c">>
U_1       == <<"h", ":", "8", "0", "0", "1">>
U_2       == <<"h", ":", "8", "0", "0", "2">>
U_3       == <<"h", ":", "8", "0", "0", "3">>

\* The endpoints of _initialize_default_agents (host shortened to "h")
default_agents == <<U_1, U_2, U_3>>

Skill(n, d, tg) == [name |-> n, description |-> d, tags |-> tg]
AgentCard(n, u, d, sk) == [name |-> n, url |-> u, description |-> d, skills |-> sk]

\* The two agents of the specification's worked examples; the math agent's
\* host is named as one of the default agents is
N_MathAgent     == <<"M", "a", "t", "h", "A", "g", "e", "n", "t">>
N_CurrencyAgent == <<"C", "u", "r", "r", "e", "n", "c", "y", "A", "g", "e", "n", "t">>
T_arithmetic_calculation ==
    <<"a", "r", "i", "t", "h", "m", "e", "t", "i", "c", "_", "c", "a", "l", "c", "u", "l", "a", "t", "i", "o", "n">>
T_currency_exchange ==
    <<"c", "u", "r", "r", "e", "n", "c", "y", "_", "e", "x", "c", "h", "a", "n", "g", "e">>
T_math      == <<"m", "a", "t", "h">>
T_calculate == <<"c", "a", "l", "c", "u", "l", "a", "t", "e">>
T_plus      == <<"+">>
T_minus     == <<"-">>
T_eur       == <<"e", "u", "r">>
U_math      == <<"F", "x", ":", "9", "0", "0", "1">>
U_currency  == <<"h", ":", "9", "0", "0", "2">>
MathAgentCard ==
    AgentCard(N_MathAgent, U_math, <<>>,
              <<Skill(T_arithmetic_calculation, <<>>, <<T_math, T_calculate, T_plus, T_minus>>)>>)
CurrencyAgentCard ==
    AgentCard(N_CurrencyAgent, U_currency, <<>>,
              <<Skill(T_currency_exchange, <<>>, <<T_usd, T_eur, T_convert>>)>>)

\* The card an endpoint serves.  Two endpoints declare the same name.
CardAt(endpoint) ==
    CASE endpoint = U_1 ->
           AgentCard(N_Fx, U_1, <<>>, <<Skill(T_fx_rate, <<>>, <<T_usd, T_convert>>)>>)
      [] endpoint = U_2 ->
           AgentCard(N_Calc, U_2, T_tax, <<Skill(T_sum, <<>>, <<T_add, T_usd>>)>>)
      [] endpoint = U_3 ->
           AgentCard(N_Fx, U_3, T_data, <<Skill(T_sum, T_Rate, <<T_Eur>>)>>)
      [] endpoint = U_math -> MathAgentCard
      [] endpoint = U_currency -> CurrencyAgentCard

Endpoints == {U_1, U_2, U_3}

-----------------------------------------------------------------------------
(* Registry, skill keywords, capability index *)

\* dict.keys() as a list
Keys(d) == [i \in 1..Len(d) |-> d[i].id]
HasKey(d, k) == \E i \in 1..Len(d) : d[i].id = k
\* d[k]
Get(d, k) == d[CHOOSE i \in 1..Len(d) : d[i].id = k].card
\* d[k] = v: an existing key keeps its place, a new key goes last
Put(d, k, v) ==
    IF HasKey(d, k)
    THEN [i \in 1..Len(d) |-> IF d[i].id = k THEN [id |-> k, card |-> v] ELSE d[i]]
    ELSE Append(d, [id |-> k, card |-> v])
\* del d[k]
Del(d, k) == SelectSeq(d, LAMBDA e : e.id # k)

\* Every skill of every agent, in iteration order
AllSkills(ag) == Flatten([i \in 1..Len(ag) |-> ag[i].card.skills])

\* What one skill appends to its name's keyword list: its tags, its name, and
\* the words longer than 2 among the first 3 of its description
SkillKeywordParts(skill) ==
    [i \in 1..Len(skill.tags) |-> Lower(skill.tags[i])]
    \o <<ReplaceChar(Lower(skill.name), "_", " ")>>
    \o SelectSeq(Take(Split(Lower(skill.description)), 3), LAMBDA w : Len(w) > 2)

\* _update_skill_keywords: the table is keyed by skill name alone, each list
\* grows by append-if-absent over every skill of that name
_update_skill_keywords(ag) ==
    LET skills == AllSkills(ag)
        names  == Dedup([i \in 1..Len(skills) |-> skills[i].name])
        PartsOf(n) == Flatten([i \in 1..Len(skills) |->
                         IF skills[i].name = n THEN SkillKeywordParts(skills[i]) ELSE <<>>])
    IN  [k \in 1..Len(names) |-> [name |-> names[k], keywords |-> Dedup(PartsOf(names[k]))]]

\* self.skill_keywords.get(skill_name, [])
KeywordsOf(kw, n) ==
    IF \E i \in 1..Len(kw) : kw[i].name = n
    THEN kw[CHOOSE i \in 1..Len(kw) : kw[i].name = n].keywords
    ELSE <<>>

DescStop == {<<"t","h","e">>, <<"a","n","d">>, <<"f","o","r">>, <<"w","i","t","h">>,
             <<"t","h","i","s">>, <<"t","h","a","t">>, <<"c","a","n">>, <<"w","i","l","l">>}

\* What one skill adds to its agent's capability set, in the order it is added
SkillCapabilities(skill) ==
    LET skill_capability == ReplaceChar(ReplaceChar(Lower(skill.name), "_", " "), "-", " ")
        tags == SelectSeq(skill.tags, LAMBDA tg : Len(tg) > 2)
    IN  <<skill_capability>>
        \o SelectSeq(Split(skill_capability), LAMBDA w : Len(w) > 2)
        \o [i \in 1..Len(tags) |-> Lower(tags[i])]
        \o SelectSeq(Take(FindWords3(Lower(skill.description)), 10),
                     LAMBDA w : w \notin DescStop)

\* agent_capabilities of one agent, in the order of first insertion
AgentCapabilities(card) ==
    Dedup(Flatten([i \in 1..Len(card.skills) |-> SkillCapabilities(card.skills[i])])
          \o FindWords3(Lower(card.name))
          \o Take(FindWords3(Lower(card.description)), 5))

\* Iteration order of a Python set of strings: fixed by the process's hash
\* seed, unrelated to insertion order.  Two of the possible orders are kept.
SetOrder(q, seed) == IF seed = 0 THEN q ELSE Reverse(q)

common_words == {<<"a","g","e","n","t">>, <<"s","e","r","v","i","c","e">>,
                 <<"s","y","s","t","e","m">>, <<"m","a","n","a","g","e">>,
                 <<"h","a","n","d","l","e">>, <<"p","r","o","c","e","s","s">>,
                 <<"o","p","e","r","a","t","i","o","n">>, <<"d","a","t","a">>}

\* _update_capability_registry: capability -> [agent_ids], rebuilt from nothing;
\* a common word is dropped when every agent has it
_update_capability_registry(ag, seed) ==
    LET capsOf == [i \in 1..Len(ag) |-> SetOrder(AgentCapabilities(ag[i].card), seed)]
        keys   == Dedup(Flatten(capsOf))
        idsOf(c) == LET idx == SelectSeq([i \in 1..Len(ag) |-> i],
                                         LAMBDA i : InSeq(c, capsOf[i]))
                    IN  [j \in 1..Len(idx) |-> ag[idx[j]].id]
        built  == [k \in 1..Len(keys) |-> [cap |-> keys[k], agent_ids |-> idsOf(keys[k])]]
    IN  SelectSeq(built, LAMBDA e : ~(e.cap \in common_words /\ Len(e.agent_ids) >= Len(ag)))

\* capability -> entry lookups on self.capability_registry
CapKeys(reg) == [i \in 1..Len(reg) |-> reg[i].cap]
HasCap(reg, c) == \E i \in 1..Len(reg) : reg[i].cap = c
\* self.capability_registry.get(c, [])
CapAgents(reg, c) ==
    IF HasCap(reg, c) THEN reg[CHOOSE i \in 1..Len(reg) : reg[i].cap = c].agent_ids ELSE <<>>

-----------------------------------------------------------------------------
(* Values shared by the two workflows *)

\* Python's None where an agent id is expected (no text equals it)
None == <<"None">>

\* An f-string error message: its literal text and the value formatted into it
Err(msg, arg) == [msg |-> msg, arg |-> arg]
NoError == Err("", <<>>)
\* str(KeyError(key)), what self.agents[key] raises for a missing key
KeyError(key) == Err("KeyError", key)

NoReasoning == [name |-> <<>>, keywords |-> <<>>, skills |-> <<>>]
NoResponse == [kind |-> ""]
NoCall == [phase |-> "none"]

-----------------------------------------------------------------------------
(* Request scorer and single-agent router *)

\* _skill_matches_request: some keyword of the skill's name is in the request
_skill_matches_request(kw, skill_name, req) ==
    LET keywords == KeywordsOf(kw, skill_name)
    IN  \E i \in 1..Len(keywords) : Contains(keywords[i], Lower(req))

\* The tags of every skill of the card, in order
TagsOf(card) == Flatten([i \in 1..Len(card.skills) |-> card.skills[i].tags])

\* A scorer that looks for each tag among the words of the request
_calculate_agent_score_by_word(kw, req, card) ==
    LET keywords == TagsOf(card)
        hits     == SelectSeq(keywords, LAMBDA k : InSeq(Lower(k), Split(Lower(req))))
        matched  == SelectSeq(card.skills,
                              LAMBDA s : _skill_matches_request(kw, s.name, req))
    IN  [score |-> 10 * Len(hits) + 15 * Len(matched),
         matched_skills |-> [i \in 1..Len(matched) |-> matched[i].name]]

\* A scorer that takes a request naming several of the agent's tags for an
\* ambiguous one, worth a single point
_calculate_agent_score_ambiguous(kw, req, card) ==
    LET keywords == TagsOf(card)
        hits     == SelectSeq(keywords, LAMBDA k : Contains(Lower(k), Lower(req)))
        matched  == SelectSeq(card.skills,
                              LAMBDA s : _skill_matches_request(kw, s.name, req))
    IN  [score |-> IF Len(hits) > 1 THEN 10 ELSE 10 * Len(hits) + 15 * Len(matched),
         matched_skills |-> [i \in 1..Len(matched) |-> matched[i].name]]

\* _calculate_agent_score: (score in tenths, matched skill names)
_calculate_agent_score(kw, req, card) ==
    LET keywords == TagsOf(card)
        hits     == SelectSeq(keywords, LAMBDA k : Contains(Lower(k), Lower(req)))
        matched  == SelectSeq(card.skills,
                              LAMBDA s : _skill_matches_request(kw, s.name, req))
    IN  [score |-> 10 * Len(hits) + 15 * Len(matched),
         matched_skills |-> [i \in 1..Len(matched) |-> matched[i].name]]

\* The selection loop with a later agent replacing the best one on an equal
\* score as well
RECURSIVE BestFrom_ge(_, _, _, _, _)
BestFrom_ge(ag, kw, req, i, best) ==
    IF i > Len(ag) THEN best
    ELSE LET score == _calculate_agent_score(kw, req, ag[i].card).score
         IN  BestFrom_ge(ag, kw, req, i + 1,
                         IF score >= best.score /\ score > 0
                         THEN [agent |-> ag[i].id, score |-> score]
                         ELSE best)

\* The selection loop of _analyze_request over agents i..: a later agent
\* replaces the best one only with a strictly greater score
RECURSIVE BestFrom(_, _, _, _, _)
BestFrom(ag, kw, req, i, best) ==
    IF i > Len(ag) THEN best
    ELSE LET score == _calculate_agent_score(kw, req, ag[i].card).score
         IN  BestFrom(ag, kw, req, i + 1,
                      IF score > best.score
                      THEN [agent |-> ag[i].id, score |-> score]
                      ELSE best)

\* _generate_reasoning
_generate_reasoning(ag, req, selected_agent, skill_matches) ==
    LET card == Get(ag, selected_agent)
    IN  [name |-> card.name,
         keywords |-> SelectSeq(TagsOf(card), LAMBDA k : Contains(Lower(k), Lower(req))),
         skills |-> skill_matches]

InitialRouterState ==
    [selected_agent |-> <<>>, confidence |-> 0, reasoning |-> NoReasoning,
     response |-> NoResponse, error |-> NoError,
     metadata |-> [status |-> "", agent_endpoint |-> <<>>, agent_scores |-> <<>>]]

\* An analysis that reports best_score / 5.0 as it is
_analyze_request_unclamped(ag, kw, req, st) ==
    LET best   == BestFrom(ag, kw, req, 1, [agent |-> None, score |-> 0])
        chosen == IF best.agent = None
                  THEN [agent |-> Keys(ag)[1], score |-> 3]
                  ELSE best
        scores == [i \in 1..Len(ag) |->
                     [id |-> ag[i].id,
                      score |-> _calculate_agent_score(kw, req, ag[i].card).score]]
    IN  IF best.agent = None /\ ag = <<>>
        THEN [st EXCEPT !.error = Err("No agents available for routing", <<>>)]
        ELSE [st EXCEPT
                !.selected_agent = chosen.agent,
                !.confidence = chosen.score * 2,
                !.reasoning = _generate_reasoning(ag, req, chosen.agent,
                     _calculate_agent_score(kw, req, Get(ag, chosen.agent)).matched_skills),
                !.metadata.agent_scores = scores]

\* _analyze_request
_analyze_request(ag, kw, req, st) ==
    LET best   == BestFrom(ag, kw, req, 1, [agent |-> None, score |-> 0])
        chosen == IF best.agent = None
                  THEN [agent |-> Keys(ag)[1], score |-> 3]
                  ELSE best
        scores == [i \in 1..Len(ag) |->
                     [id |-> ag[i].id,
                      score |-> _calculate_agent_score(kw, req, ag[i].card).score]]
    IN  IF best.agent = None /\ ag = <<>>
        THEN [st EXCEPT !.error = Err("No agents available for routing", <<>>)]
        ELSE [st EXCEPT
                !.selected_agent = chosen.agent,
                !.confidence = Min(chosen.score * 2, 100),
                !.reasoning = _generate_reasoning(ag, req, chosen.agent,
                     _calculate_agent_score(kw, req, Get(ag, chosen.agent)).matched_skills),
                !.metadata.agent_scores = scores]

-----------------------------------------------------------------------------
(* The remote call: _forward_request_to_agent *)

\* Number of distinct texts a remote agent may answer with
NumResultTexts == 1
ResultTextNames == <<"r1", "r2", "r3">>
RemoteTexts == {ResultTextNames[i] : i \in 1..NumResultTexts}

\* range(30): the polling loop's attempts
MaxPollAttempts == 30

Return(text) == [kind |-> "return", text |-> text]
Raise(msg) == [kind |-> "raise", error |-> Err(msg, <<>>)]
Continue == [kind |-> "continue"]

\* What the answer to message/send makes of the call
OnReply(kind, text) ==
    CASE kind = "http_error"      -> Raise("HTTP error")
      [] kind = "rpc_error"       -> Raise("Request forwarding failed: Agent returned error")
      [] kind = "no_result"       -> Raise("Request forwarding failed: No result in agent response")
      [] kind = "transport"       -> Raise("Request forwarding failed")
      [] kind = "message"         -> Return(text)
      [] kind = "message_no_text" -> Return("Message received but no text content")
      [] kind = "task"            -> Continue
      [] kind = "other"           -> Return("Unexpected response format from agent")

\* A polling loop that goes on for as long as the task is pending
OnPoll_while_pending(kind, text, attempt) ==
    CASE kind = "pending"                -> Continue
      [] kind = "completed"              -> Return(text)
      [] kind = "completed_no_text"      -> Return("Task completed but no response text found")
      [] kind = "failed"                 -> Return("Agent task failed")
      [] kind = "input_required"         -> Return(text)
      [] kind = "input_required_no_text" -> Return("Agent requires input but no message provided")
      [] kind = "http_error"             -> Raise("HTTP error")
      [] kind = "transport"              -> Raise("Request forwarding failed")

\* What the answer to one tasks/get makes of the call; attempt counts the
\* polls already made
OnPoll(kind, text, attempt) ==
    CASE kind = "pending" ->
           IF attempt + 1 >= MaxPollAttempts
           THEN Return("Task did not complete within timeout")
           ELSE Continue
      [] kind = "completed"              -> Return(text)
      [] kind = "completed_no_text"      -> Return("Task completed but no response text found")
      [] kind = "failed"                 -> Return("Agent task failed")
      [] kind = "input_required"         -> Return(text)
      [] kind = "input_required_no_text" -> Return("Agent requires input but no message provided")
      [] kind = "http_error"             -> Raise("HTTP error")
      [] kind = "transport"              -> Raise("Request forwarding failed")

\* The answers the remote agents of the model give (the answers without a
\* text part, which return a fixed text the same way, are not drawn)
ReplyKinds == {"http_error", "rpc_error", "transport", "message", "task", "other"}
PollKinds == {"pending", "completed", "failed", "input_required", "http_error"}

\* The call as it starts: message/send is posted to the endpoint
Call(endpoint, task, card) ==
    [phase |-> "sending", endpoint |-> endpoint, task |-> task, attempt |-> 0,
     agent_name |-> card.name]

-----------------------------------------------------------------------------
(* Requests *)

R_usd         == <<"u", "s", "d">>
R_hi          == <<"h", "i">>
R_convert_tax == <<"c", "o", "n", "v", "e", "r", "t", " ", "t", "a", "x">>
R_add_then    == <<"a", "d", "d", " ", "t", "h", "e", "n", " ", "c", "o", "n", "v", "e", "r", "t">>
R_convert_usd_add ==
    <<"c", "o", "n", "v", "e", "r", "t", " ", "u", "s", "d", " ", "t", "h", "e", "n", " ", "a", "d", "d">>
Requests == {R_usd, R_hi, R_convert_tax, R_add_then, R_convert_usd_add}

NoResult == [returned |-> FALSE]

\* The except branch of process_request and of process_multi_agent_request
Failure(op, req, error) ==
    [returned |-> TRUE, op |-> op, success |-> FALSE, request |-> req, error |-> error]

\* _route_to_agent after the remote call: the answer, or the routing decision
\* alone when the call raised
RouteResponse(st, call, outcome) ==
    IF outcome.kind = "return"
    THEN [st EXCEPT !.response = [kind |-> "routed", agent_name |-> call.agent_name,
                                  text |-> outcome.text],
                    !.metadata.status = "completed"]
    ELSE [st EXCEPT !.response = [kind |-> "routing_only", agent_name |-> call.agent_name,
                                  endpoint |-> call.endpoint, confidence |-> st.confidence,
                                  reasoning |-> st.reasoning, error |-> outcome.error],
                    !.metadata.status = "routing_only"]

\* The return statement of process_request
RouterResult(ag, req, st) ==
    LET agent_card == Get(ag, st.selected_agent)
    IN  [returned |-> TRUE, op |-> "process_request", success |-> TRUE, request |-> req,
         selected_agent_id |-> st.selected_agent,
         selected_agent_name |-> agent_card.name,
         confidence |-> st.confidence, reasoning |-> st.reasoning,
         response |-> st.response, metadata |-> st.metadata]

-----------------------------------------------------------------------------
(* Multi-agent planner: decomposition *)

RECURSIVE SumSeq(_)
SumSeq(q) == IF q = <<>> THEN 0 ELSE Head(q) + SumSeq(Tail(q))

generic_terms ==
    {<<"w", "h", "a", "t">>,
     <<"i", "s">>,
     <<"t", "h", "e">>,
     <<"a", "n", "d">>,
     <<"f", "o", "r">>,
     <<"w", "i", "t", "h">>,
     <<"c", "a", "n">>,
     <<"w", "i", "l", "l">>,
     <<"g", "e", "t">>,
     <<"s", "e", "t">>,
     <<"d", "o">>,
     <<"m", "a", "k", "e">>,
     <<"u", "s", "e">>}

Symbols == {"+", "-", "*", "/", "=", "<", ">"}
op_terms ==
    {<<"o", "p", "e", "r", "a", "t", "i", "o", "n">>,
     <<"c", "a", "l", "c", "u", "l", "a", "t", "i", "o", "n">>,
     <<"c", "o", "m", "p", "u", "t", "e">>,
     <<"p", "r", "o", "c", "e", "s", "s">>}

\* _score_capability_match, in tenths
_score_capability_match(request_lower, capability) ==
    LET capability_lower == Lower(capability)
        symbol  == IF Len(capability_lower) = 1 /\ Contains(capability_lower, request_lower)
                   THEN 30 ELSE 0
        direct  == IF Contains(capability_lower, request_lower)
                   THEN 20 + Min(Len(capability_lower), 10) ELSE 0
        capability_words == Split(capability_lower)
        partial == SumSeq([i \in 1..Len(capability_words) |->
                      LET word == capability_words[i]
                      IN  IF Len(word) > 2 /\ word \notin generic_terms
                             /\ Contains(word, request_lower)
                          THEN (IF Len(word) > 4 THEN 15 ELSE 10)
                          ELSE 0])
        request_words == Split(request_lower)
        reverse == SumSeq([i \in 1..Len(request_words) |->
                      LET word == request_words[i]
                      IN  IF Len(word) > 3 /\ word \notin generic_terms
                             /\ Contains(word, capability_lower)
                          THEN 3 ELSE 0])
        boost   == IF /\ \E i \in 1..Len(request_lower) : request_lower[i] \in Symbols
                      /\ \E term \in op_terms : Contains(term, capability_lower)
                   THEN 10 ELSE 0
    IN  IF capability_lower \in generic_terms THEN 1
        ELSE symbol + direct + partial + reverse + boost

\* sorted(..., key=score, reverse=True): stable, equal scores keep their order
SortedByScore(q) ==
    LET place(i) == 1 + Cardinality({j \in 1..Len(q) :
                           \/ q[j].score > q[i].score
                           \/ q[j].score = q[i].score /\ j < i})
    IN  [r \in 1..Len(q) |-> q[CHOOSE i \in 1..Len(q) : place(i) = r]]

multi_step_indicators ==
    {<<"a", "n", "d", " ", "t", "h", "e", "n">>,
     <<"t", "h", "e", "n">>,
     <<"a", "f", "t", "e", "r">>,
     <<"f", "o", "l", "l", "o", "w", "e", "d", " ", "b", "y">>,
     <<"n", "e", "x", "t">>,
     <<"a", "n", "d", " ", "a", "l", "s", "o">>,
     <<"c", "o", "m", "b", "i", "n", "e", "d", " ", "w", "i", "t", "h">>,
     <<"t", "o", "g", "e", "t", "h", "e", "r", " ", "w", "i", "t", "h">>}

\* set(a).intersection(set(b)) is empty
Disjoint(a, b) == ~ \E i \in 1..Len(a) : InSeq(a[i], b)

\* A detection that takes any two strong capabilities for two domains
_is_multi_step_request_any_two(reg, request_lower, sorted_capabilities) ==
    LET has_explicit_connectors ==
            \E indicator \in multi_step_indicators : Contains(indicator, request_lower)
        top == Min(5, Len(sorted_capabilities))
        cross_domain_operation ==
            /\ Len(sorted_capabilities) >= 2
            /\ \E i \in 1..top : \E j \in (i + 1)..top :
                  /\ sorted_capabilities[i].score > 10
                  /\ sorted_capabilities[j].score > 5
    IN  has_explicit_connectors \/ cross_domain_operation

\* _is_multi_step_request
_is_multi_step_request(reg, request_lower, sorted_capabilities) ==
    LET has_explicit_connectors ==
            \E indicator \in multi_step_indicators : Contains(indicator, request_lower)
        top == Min(5, Len(sorted_capabilities))
        cross_domain_operation ==
            /\ Len(sorted_capabilities) >= 2
            /\ \E i \in 1..top : \E j \in (i + 1)..top :
                  /\ sorted_capabilities[i].score > 10
                  /\ sorted_capabilities[j].score > 5
                  /\ Disjoint(CapAgents(reg, sorted_capabilities[i].cap),
                              CapAgents(reg, sorted_capabilities[j].cap))
    IN  has_explicit_connectors \/ cross_domain_operation

\* A requirement's description, input_format and output_format: the literal
\* text of the f-string and the values formatted into it
Text(lit, cap, req) == [lit |-> lit, cap |-> cap, req |-> req]

Requirement(capability, description, input_format, output_format, priority) ==
    [capability_type |-> capability, description |-> description,
     input_format |-> input_format, output_format |-> output_format,
     priority |-> priority]

\* The one-requirement answer of _generic_pattern_matching
SingleRequirement(capability, req) ==
    <<Requirement(capability, Text("", <<>>, req), "user request",
                  Text("processed response", <<>>, <<>>), 10)>>

T_general == <<"g", "e", "n", "e", "r", "a", "l">>

\* A second capability chosen by score alone
RECURSIVE SecondFrom_any_agent(_, _, _, _)
SecondFrom_any_agent(reg, sorted_capabilities, j, used_agents) ==
    IF j > Len(sorted_capabilities) THEN <<>>
    ELSE IF sorted_capabilities[j].score > 5 THEN <<sorted_capabilities[j].cap>>
    ELSE SecondFrom_any_agent(reg, sorted_capabilities, j + 1, used_agents)

\* The second capability of a multi-step decomposition: the first one after the
\* top whose score is above 0.5 and whose agents are all new
RECURSIVE SecondFrom(_, _, _, _)
SecondFrom(reg, sorted_capabilities, j, used_agents) ==
    IF j > Len(sorted_capabilities) THEN <<>>
    ELSE LET e == sorted_capabilities[j]
         IN  IF /\ e.score > 5
                /\ HasCap(reg, e.cap)
                /\ Disjoint(CapAgents(reg, e.cap), used_agents)
             THEN <<e.cap>>
             ELSE SecondFrom(reg, sorted_capabilities, j + 1, used_agents)

\* _generic_pattern_matching
_generic_pattern_matching(reg, req, available_capabilities) ==
    LET request_lower == Lower(req)
        scored == [i \in 1..Len(available_capabilities) |->
                     [cap |-> available_capabilities[i],
                      score |-> _score_capability_match(request_lower,
                                                        available_capabilities[i])]]
        sorted_capabilities == SortedByScore(SelectSeq(scored, LAMBDA e : e.score > 0))
        first == sorted_capabilities[1]
        firstSel == IF first.score > 10 THEN <<first.cap>> ELSE <<>>
        used_agents == IF first.score > 10 THEN CapAgents(reg, first.cap) ELSE <<>>
        selected_capabilities ==
            firstSel \o SecondFrom(reg, sorted_capabilities, 2, used_agents)
    IN  IF sorted_capabilities = <<>>
        THEN SingleRequirement(IF available_capabilities # <<>>
                               THEN available_capabilities[1] ELSE T_general, req)
        ELSE IF _is_multi_step_request(reg, request_lower, sorted_capabilities)
                /\ Len(selected_capabilities) > 1
             THEN [i \in 1..Len(selected_capabilities) |->
                     Requirement(selected_capabilities[i],
                        IF i = 1
                        THEN Text("Process the components from this request",
                                  selected_capabilities[i], req)
                        ELSE Text("Use the previous results to handle the aspects",
                                  selected_capabilities[i], <<>>),
                        IF i > 1 THEN "previous step output" ELSE "user request",
                        Text("result", selected_capabilities[i], <<>>),
                        10 - (i - 1))]
             ELSE SingleRequirement(first.cap, req)

\* re.search(r'Request: "(.*?)"', prompt) on the prompt that embeds the request
\* between double quotes: the text up to the request's first double quote; no
\* match when a line break comes first (a request that itself holds the text
\* Request: " is left out)
FirstSpecial(req) ==
    IF \E i \in 1..Len(req) : req[i] \in {"\"", "\n"}
    THEN CHOOSE i \in 1..Len(req) :
            /\ req[i] \in {"\"", "\n"}
            /\ \A j \in 1..(i - 1) : req[j] \notin {"\"", "\n"}
    ELSE 0
RequestMatches(req) == FirstSpecial(req) = 0 \/ req[FirstSpecial(req)] = "\""
original_request(req) ==
    IF FirstSpecial(req) = 0 THEN req ELSE SubSeq(req, 1, FirstSpecial(req) - 1)

\* _call_llm_for_decomposition
_call_llm_for_decomposition(reg, req) ==
    IF ~RequestMatches(req)
    THEN <<[capability_type |-> T_general,
            description |-> Text("General request processing", <<>>, <<>>)]>>
    ELSE IF CapKeys(reg) = <<>>
         THEN <<[capability_type |-> T_general,
                 description |-> Text("", <<>>, original_request(req))]>>
         ELSE _generic_pattern_matching(reg, original_request(req), CapKeys(reg))

-----------------------------------------------------------------------------
(* Multi-agent planner: plan construction *)

InitialMultiState ==
    [execution_type |-> "", task_requirements |-> <<>>, execution_plan |-> <<>>,
     current_step |-> 0, intermediate_results |-> <<>>, final_response |-> NoResponse,
     confidence |-> 0, reasoning |-> [kind |-> "", caps |-> <<>>], error |-> NoError,
     metadata |-> <<>>]

\* _analyze_request_requirements
_analyze_request_requirements(reg, req, st) ==
    LET task_requirements == _call_llm_for_decomposition(reg, req)
        caps == [i \in 1..Len(task_requirements) |-> task_requirements[i].capability_type]
    IN  [st EXCEPT
            !.execution_type = IF Len(task_requirements) > 1 THEN "multi" ELSE "single",
            !.reasoning = [kind |-> IF Len(task_requirements) > 1
                                    THEN "Multi-capability request requiring"
                                    ELSE "Single-capability request",
                           caps |-> caps],
            !.task_requirements = task_requirements,
            !.confidence = 80]

\* _score_agent_for_capability, in tenths
_score_agent_for_capability(card, capability_type) ==
    SumSeq([i \in 1..Len(card.skills) |->
        LET skill == card.skills[i]
            name  == IF Contains(Lower(capability_type), Lower(skill.name)) THEN 20 ELSE 0
            tags  == 15 * Len(SelectSeq(skill.tags, LAMBDA tg :
                            \/ Contains(Lower(capability_type), Lower(tg))
                            \/ Contains(Lower(tg), Lower(capability_type))))
            desc  == IF skill.description # <<>>
                        /\ Contains(capability_type, Lower(skill.description))
                     THEN 10 ELSE 0
        IN  name + tags + desc])

\* The candidate loop of _find_best_agent_for_capability: a candidate becomes
\* the best one only with a score strictly above the best so far, from 0.0
RECURSIVE BestCandidate(_, _, _, _, _)
BestCandidate(ag, candidate_agents, capability_type, i, best) ==
    IF i > Len(candidate_agents) THEN best.agent
    ELSE LET score == _score_agent_for_capability(Get(ag, candidate_agents[i]),
                                                  capability_type)
         IN  BestCandidate(ag, candidate_agents, capability_type, i + 1,
                           IF score > best.score
                           THEN [agent |-> candidate_agents[i], score |-> score]
                           ELSE best)

\* _find_best_agent_for_capability: an agent id or None
_find_best_agent_for_capability(ag, reg, capability_type) ==
    LET fuzzy == SelectSeq(reg, LAMBDA e : \/ Contains(capability_type, e.cap)
                                           \/ Contains(e.cap, capability_type))
    IN  IF HasCap(reg, capability_type)
        THEN BestCandidate(ag, CapAgents(reg, capability_type), capability_type, 1,
                           [agent |-> None, score |-> 0])
        ELSE IF fuzzy # <<>> THEN fuzzy[1].agent_ids[1]
        ELSE IF ag # <<>> THEN Keys(ag)[1]
        ELSE None

\* f"step_{i}" and f"step_{i}_output"
StepId(i) == <<"step_", i>>
OutputKey(i) == <<"step_", i, "_output">>

\* Steps numbered from 1
PlanSteps_numbered_from_one(ag, reg, task_requirements, n) ==
    [k \in 1..n |->
        [step_id |-> StepId(k),
         agent_id |-> _find_best_agent_for_capability(ag, reg,
                          task_requirements[k].capability_type),
         task_description |-> task_requirements[k].description,
         input_dependencies |-> [j \in 1..(k - 1) |-> OutputKey(j)],
         output_key |-> OutputKey(k)]]

\* The steps of _create_execution_plan for requirements 1..n (step indices
\* 0..n-1)
PlanSteps(ag, reg, task_requirements, n) ==
    [k \in 1..n |->
        [step_id |-> StepId(k - 1),
         agent_id |-> _find_best_agent_for_capability(ag, reg,
                          task_requirements[k].capability_type),
         task_description |-> task_requirements[k].description,
         input_dependencies |-> [j \in 1..(k - 1) |-> OutputKey(j - 1)],
         output_key |-> OutputKey(k - 1)]]

\* A plan construction that stores each step as it is assigned: the steps
\* before the requirement without an agent stay in the state
_create_execution_plan_stores_steps(ag, reg, st) ==
    LET task_requirements == st.task_requirements
        steps == PlanSteps(ag, reg, task_requirements, Len(task_requirements))
        missing == {k \in 1..Len(steps) : steps[k].agent_id = None}
        firstMissing == CHOOSE k \in missing : \A m \in missing : k <= m
    IN  IF missing # {}
        THEN [st EXCEPT !.error = Err("No agent found for capability",
                                      task_requirements[firstMissing].capability_type),
                        !.execution_plan = SubSeq(steps, 1, firstMissing - 1)]
        ELSE [st EXCEPT !.execution_plan = steps,
                        !.current_step = 0,
                        !.intermediate_results = <<>>]

\* _create_execution_plan: the first requirement without an agent ends it with
\* the error, the plan of the state left as it was
_create_execution_plan(ag, reg, st) ==
    LET task_requirements == st.task_requirements
        steps == PlanSteps(ag, reg, task_requirements, Len(task_requirements))
        missing == {k \in 1..Len(steps) : steps[k].agent_id = None}
        firstMissing == CHOOSE k \in missing : \A m \in missing : k <= m
    IN  IF missing # {}
        THEN [st EXCEPT !.error = Err("No agent found for capability",
                                      task_requirements[firstMissing].capability_type)]
        ELSE [st EXCEPT !.execution_plan = steps,
                        !.current_step = 0,
                        !.intermediate_results = <<>>]

-----------------------------------------------------------------------------
(* Execution engine *)

\* dict lookups on intermediate_results: <<[key, text]>>
HasResult(results, key) == \E i \in 1..Len(results) : results[i].key = key
PutResult(results, key, text) ==
    IF HasResult(results, key)
    THEN [i \in 1..Len(results) |->
             IF results[i].key = key THEN [key |-> key, text |-> text] ELSE results[i]]
    ELSE Append(results, [key |-> key, text |-> text])

\* A task text that leaves the earlier results out
_build_task_with_dependencies_without_results(task_description, dependencies, intermediate_results, original) ==
    [original_request |-> original, previous_results |-> <<>>, task |-> task_description]

\* _build_task_with_dependencies: the original request, the stored results of
\* the dependencies in dependency order, and the step's own description
_build_task_with_dependencies(task_description, dependencies, intermediate_results, original) ==
    LET dependency_context ==
            SelectSeq(intermediate_results, LAMBDA r : InSeq(r.key, dependencies))
        ordered == Flatten([i \in 1..Len(dependencies) |->
                      SelectSeq(dependency_context,
                                LAMBDA r : r.key = dependencies[i])])
    IN  [original_request |-> original,
         previous_results |-> IF dependencies = <<>> \/ intermediate_results = <<>>
                              THEN <<>> ELSE ordered,
         task |-> task_description]

\* state.get("error") is truthy
HasError(st) == st.error.msg # ""

\* A conditional edge that looks at the cursor only
_should_continue_execution_ignores_error(st) ==
    IF st.current_step >= Len(st.execution_plan) THEN "finish" ELSE "continue"

\* A conditional edge that stops on an error only
_should_continue_execution_until_error(st) ==
    IF HasError(st) THEN "finish" ELSE "continue"

\* _should_continue_execution
_should_continue_execution(st) ==
    IF HasError(st) THEN "finish"
    ELSE IF st.current_step >= Len(st.execution_plan) THEN "finish"
    ELSE "continue"

\* A step that moves the cursor on whether or not the call succeeded
StepOutcome_advances_on_error(st, call, outcome) ==
    IF outcome.kind = "return"
    THEN [st EXCEPT
            !.intermediate_results =
                PutResult(@, st.execution_plan[st.current_step + 1].output_key, outcome.text),
            !.current_step = @ + 1]
    ELSE [st EXCEPT !.current_step = @ + 1,
                    !.error = Err("Step failed", <<st.current_step, outcome.error>>)]

\* _execute_current_step after the remote call: the result stored under the
\* step's output key and the cursor advanced, or the error recorded
StepOutcome(st, call, outcome) ==
    LET current_step_idx == st.current_step
        step == st.execution_plan[current_step_idx + 1]
    IN  IF outcome.kind = "return"
        THEN [st EXCEPT
                !.intermediate_results = PutResult(@, step.output_key, outcome.text),
                !.current_step = @ + 1,
                !.metadata = Append(@, [step |-> current_step_idx,
                                        agent |-> call.agent_name,
                                        task |-> step.task_description,
                                        result |-> outcome.text])]
        ELSE [st EXCEPT !.error = Err("Step failed", <<current_step_idx, outcome.error>>)]

\* The agents _aggregate_results looks up in self.agents
AggregateLookups(st) ==
    IF HasError(st) THEN <<>>
    ELSE IF st.execution_type = "multi"
         THEN [i \in 1..Len(st.execution_plan) |-> st.execution_plan[i].agent_id]
         ELSE IF st.intermediate_results # <<>>
              THEN <<st.execution_plan[1].agent_id>>
              ELSE <<>>

\* intermediate_results.get(key, "No result")
ResultOr(results, key) ==
    IF HasResult(results, key)
    THEN results[CHOOSE i \in 1..Len(results) : results[i].key = key].text
    ELSE "No result"

\* An aggregation whose final answer is the first result stored
_aggregate_results_first_answer(ag, st) ==
    LET execution_plan == st.execution_plan
        intermediate_results == st.intermediate_results
    IN  IF HasError(st)
        THEN [st EXCEPT !.final_response =
                 [kind |-> "Multi-agent execution failed", error |-> st.error]]
        ELSE IF st.execution_type = "multi"
        THEN [st EXCEPT !.final_response =
                 [kind |-> "Multi-Agent Collaboration Result",
                  steps |-> [i \in 1..Len(execution_plan) |->
                               [agent_name |-> Get(ag, execution_plan[i].agent_id).name,
                                result |-> ResultOr(intermediate_results,
                                                    execution_plan[i].output_key)]],
                  final_answer |-> IF intermediate_results # <<>>
                                   THEN <<intermediate_results[1].text>>
                                   ELSE <<>>]]
        ELSE IF intermediate_results # <<>>
        THEN [st EXCEPT !.final_response =
                 [kind |-> "routed",
                  agent_name |-> Get(ag, execution_plan[1].agent_id).name,
                  text |-> intermediate_results[1].text]]
        ELSE [st EXCEPT !.final_response = [kind |-> "No results generated"]]

\* _aggregate_results (every agent it looks up being registered)
_aggregate_results(ag, st) ==
    LET execution_plan == st.execution_plan
        intermediate_results == st.intermediate_results
    IN  IF HasError(st)
        THEN [st EXCEPT !.final_response =
                 [kind |-> "Multi-agent execution failed", error |-> st.error]]
        ELSE IF st.execution_type = "multi"
        THEN [st EXCEPT !.final_response =
                 [kind |-> "Multi-Agent Collaboration Result",
                  steps |-> [i \in 1..Len(execution_plan) |->
                               [agent_name |-> Get(ag, execution_plan[i].agent_id).name,
                                result |-> ResultOr(intermediate_results,
                                                    execution_plan[i].output_key)]],
                  final_answer |-> IF intermediate_results # <<>>
                                   THEN <<intermediate_results[Len(intermediate_results)].text>>
                                   ELSE <<>>]]
        ELSE IF intermediate_results # <<>>
        THEN [st EXCEPT !.final_response =
                 [kind |-> "routed",
                  agent_name |-> Get(ag, execution_plan[1].agent_id).name,
                  text |-> intermediate_results[1].text]]
        ELSE [st EXCEPT !.final_response = [kind |-> "No results generated"]]

\* A return statement that leaves the step entries out of the metadata
MultiResult_without_steps(req, st) ==
    [returned |-> TRUE, op |-> "process_multi_agent_request", success |-> TRUE,
     request |-> req, execution_type |-> st.execution_type,
     task_requirements |-> st.task_requirements, execution_plan |-> st.execution_plan,
     confidence |-> st.confidence, reasoning |-> st.reasoning,
     response |-> st.final_response, metadata |-> <<>>]

\* The return statement of process_multi_agent_request
MultiResult(req, st) ==
    [returned |-> TRUE, op |-> "process_multi_agent_request", success |-> TRUE,
     request |-> req, execution_type |-> st.execution_type,
     task_requirements |-> st.task_requirements, execution_plan |-> st.execution_plan,
     confidence |-> st.confidence, reasoning |-> st.reasoning,
     response |-> st.final_response, metadata |-> st.metadata]

-----------------------------------------------------------------------------
(* Registry operations *)

\* Registry operations the event loop runs while one request is in flight
MaxConcurrentOps == 1

\* A registry operation runs between two requests or, up to the bound, at an
\* await of the request in flight.  The polls of a remote call read and write
\* nothing a registry operation touches, so the operations that run during the
\* polling loop are all taken before its first poll.
Interleaved ==
    /\ pc # "idle" => ops < MaxConcurrentOps
    /\ fwd.phase = "polling" => fwd.attempt = 0
    /\ ops' = IF pc = "idle" THEN 0 ELSE ops + 1

\* A rebuild of the capability index alone
Rebuilt_index_only(ag) ==
    /\ agents' = ag
    /\ capability_registry' = _update_capability_registry(ag, hashSeed)
    /\ UNCHANGED skill_keywords

\* A rebuild of the skill keywords alone
Rebuilt_keywords_only(ag) ==
    /\ agents' = ag
    /\ skill_keywords' = _update_skill_keywords(ag)
    /\ UNCHANGED capability_registry

\* The rebuild every registry change ends with (_update_skill_keywords, which
\* calls _update_capability_registry)
Rebuilt(ag) ==
    /\ agents' = ag
    /\ skill_keywords' = _update_skill_keywords(ag)
    /\ capability_registry' = _update_capability_registry(ag, hashSeed)

\* _fetch_all_agent_cards: the default endpoints in order, those whose card
\* could be fetched
RECURSIVE Loaded(_, _)
Loaded(i, ok) ==
    IF i = 0 THEN <<>>
    ELSE IF i \in ok
         THEN Put(Loaded(i - 1, ok), CardAt(default_agents[i]).name, CardAt(default_agents[i]))
         ELSE Loaded(i - 1, ok)

\* No registry call has just returned
NoRegistryCall == [op |-> "none"]

\* The three tables as a registry call finds them
Tables ==
    [agents |-> agents, skill_keywords |-> skill_keywords,
     capability_registry |-> capability_registry]

\* A registry call that has just returned: its argument, the tables it found
\* and the dict it returned
Returned(op, arg, reply) == [op |-> op, arg |-> arg, before |-> Tables, reply |-> reply]

\* register_agent has just returned: the endpoint it was called with, whether
\* _fetch_agent_card_with_a2a gave it the endpoint's card (or None), the
\* tables it found and the dict it returned
RegisterReturned(endpoint, fetched, reply) ==
    [op |-> "register_agent", arg |-> endpoint, fetched |-> fetched,
     before |-> Tables, reply |-> reply]

\* add_agent: the card stored under the id given, and the tables rebuilt
add_agent(agent_id, agent_card) ==
    /\ Interleaved
    /\ Rebuilt(Put(agents, agent_id, agent_card))
    /\ last_call' = Returned("add_agent", agent_id, None)
    /\ UNCHANGED <<hashSeed, pc, request, state, mstate, fwd, sent, result>>

\* A registration that drops the agents of an endpoint whose card could not
\* be fetched
register_agent_drops_unreachable(endpoint, fetched) ==
    /\ Interleaved
    /\ IF fetched
       THEN /\ Rebuilt(Put(agents, CardAt(endpoint).name, CardAt(endpoint)))
            /\ last_call' = RegisterReturned(endpoint, fetched,
                   [success |-> TRUE, agent_id |-> CardAt(endpoint).name,
                    agent_name |-> CardAt(endpoint).name, endpoint |-> endpoint])
       ELSE /\ Rebuilt(SelectSeq(agents, LAMBDA e : e.card.url # endpoint))
            /\ last_call' = RegisterReturned(endpoint, fetched,
                   [success |-> FALSE,
                    error |-> Err("Failed to fetch agent card from", endpoint)])
    /\ UNCHANGED <<hashSeed, pc, request, state, mstate, fwd, sent, result>>

\* A registration that leaves an agent already registered under the name
\* in place
register_agent_keeps_earlier(endpoint, fetched) ==
    /\ Interleaved
    /\ IF fetched
       THEN /\ Rebuilt(IF HasKey(agents, CardAt(endpoint).name) THEN agents
                       ELSE Put(agents, CardAt(endpoint).name, CardAt(endpoint)))
            /\ last_call' = RegisterReturned(endpoint, fetched,
                   [success |-> TRUE, agent_id |-> CardAt(endpoint).name,
                    agent_name |-> CardAt(endpoint).name, endpoint |-> endpoint])
       ELSE /\ UNCHANGED <<agents, skill_keywords, capability_registry>>
            /\ last_call' = RegisterReturned(endpoint, fetched,
                   [success |-> FALSE,
                    error |-> Err("Failed to fetch agent card from", endpoint)])
    /\ UNCHANGED <<hashSeed, pc, request, state, mstate, fwd, sent, result>>

\* A registration that gives the event loop back between storing the card and
\* rebuilding the tables
register_agent_yields_before_rebuild(endpoint, fetched) ==
    /\ Interleaved
    /\ IF fetched
       THEN /\ agents' = Put(agents, CardAt(endpoint).name, CardAt(endpoint))
            /\ UNCHANGED <<skill_keywords, capability_registry>>
            /\ last_call' = RegisterReturned(endpoint, fetched,
                   [success |-> TRUE, agent_id |-> CardAt(endpoint).name,
                    agent_name |-> CardAt(endpoint).name, endpoint |-> endpoint])
       ELSE /\ UNCHANGED <<agents, skill_keywords, capability_registry>>
            /\ last_call' = RegisterReturned(endpoint, fetched,
                   [success |-> FALSE,
                    error |-> Err("Failed to fetch agent card from", endpoint)])
    /\ UNCHANGED <<hashSeed, pc, request, state, mstate, fwd, sent, result>>

\* register_agent: the card is fetched (or not), stored under its own name,
\* and the tables rebuilt.  The fetch is the call's only await and comes
\* before its first read or write of the tables, so the call is one step,
\* taken when the fetch has answered; calls that overlap are steps in the
\* order in which their fetches answer.
register_agent(endpoint, fetched) ==
    /\ Interleaved
    /\ IF fetched
       THEN /\ Rebuilt(Put(agents, CardAt(endpoint).name, CardAt(endpoint)))
            /\ last_call' = RegisterReturned(endpoint, fetched,
                   [success |-> TRUE, agent_id |-> CardAt(endpoint).name,
                    agent_name |-> CardAt(endpoint).name, endpoint |-> endpoint])
       ELSE /\ UNCHANGED <<agents, skill_keywords, capability_registry>>
            /\ last_call' = RegisterReturned(endpoint, fetched,
                   [success |-> FALSE,
                    error |-> Err("Failed to fetch agent card from", endpoint)])
    /\ UNCHANGED <<hashSeed, pc, request, state, mstate, fwd, sent, result>>

\* A search that compares the id too without regard to case
Matches_id_any_case(entry, agent_identifier) ==
    \/ Lower(entry.id) = Lower(agent_identifier)
    \/ entry.card.url = agent_identifier
    \/ Lower(entry.card.name) = Lower(agent_identifier)
    \/ Contains(agent_identifier, entry.card.url)

\* The search loop of unregister_agent: the first agent, in registry order,
\* that the identifier matches by id, url, name or part of the url; 0 if none
Matches(entry, agent_identifier) ==
    \/ entry.id = agent_identifier
    \/ entry.card.url = agent_identifier
    \/ Lower(entry.card.name) = Lower(agent_identifier)
    \/ Contains(agent_identifier, entry.card.url)
FirstMatch(ag, agent_identifier) ==
    IF \E i \in 1..Len(ag) : Matches(ag[i], agent_identifier)
    THEN CHOOSE i \in 1..Len(ag) :
            /\ Matches(ag[i], agent_identifier)
            /\ \A j \in 1..(i - 1) : ~Matches(ag[j], agent_identifier)
    ELSE 0

\* Identifiers handed to unregister_agent: a name, a name in another case,
\* part of an endpoint, an unknown one
Identifiers == {N_Fx, <<"c", "a", "l", "c">>, <<"8", "0", "0", "3">>, <<"n", "o">>}

\* The names of the default endpoints' agents, as a caller may type them
AgentNames == {N_Fx, <<"c", "a", "l", "c">>}

\* unregister_agent
unregister_agent(agent_identifier) ==
    /\ Interleaved
    /\ LET i == FirstMatch(agents, agent_identifier)
       IN  IF i # 0 /\ agents[i].id # <<>>
           THEN /\ Rebuilt(Del(agents, agents[i].id))
                /\ last_call' = Returned("unregister_agent", agent_identifier,
                       [success |-> TRUE, agent_id |-> agents[i].id,
                        agent_name |-> agents[i].card.name,
                        endpoint |-> agents[i].card.url])
           ELSE /\ UNCHANGED <<agents, skill_keywords, capability_registry>>
                /\ last_call' = Returned("unregister_agent", agent_identifier,
                       [success |-> FALSE,
                        error |-> Err("Agent not found", <<agent_identifier, Keys(agents)>>)])
    /\ UNCHANGED <<hashSeed, pc, request, state, mstate, fwd, sent, result>>

-----------------------------------------------------------------------------
(* process_request: analyze -> route *)

registry == <<agents, skill_keywords, capability_registry, hashSeed>>

\* process_request is called
StartRequest(req) ==
    /\ last_call' = NoRegistryCall
    /\ pc = "idle"
    /\ pc' = "analyze"
    /\ request' = req
    /\ state' = InitialRouterState
    /\ UNCHANGED <<registry, mstate, fwd, sent, ops, result>>

\* The analyze node
Analyze ==
    /\ last_call' = NoRegistryCall
    /\ pc = "analyze"
    /\ state' = _analyze_request(agents, skill_keywords, request, state)
    /\ pc' = "route"
    /\ UNCHANGED <<registry, events, request, mstate, fwd, sent, ops, result>>

\* The route node up to its await: self.agents[selected_agent] raises out of
\* the workflow for a missing agent, else message/send goes to the endpoint
Route ==
    /\ last_call' = NoRegistryCall
    /\ pc = "route"
    /\ IF HasKey(agents, state.selected_agent)
       THEN LET agent_card == Get(agents, state.selected_agent)
            IN  /\ state' = [state EXCEPT !.metadata.agent_endpoint = agent_card.url]
                /\ fwd' = Call(agent_card.url, request, agent_card)
                /\ sent' = Append(sent, [endpoint |-> agent_card.url, task |-> request])
                /\ pc' = "route_call"
                /\ UNCHANGED result
       ELSE /\ result' = Failure("process_request", request, KeyError(state.selected_agent))
            /\ pc' = "done"
            /\ UNCHANGED <<state, fwd, sent>>
    /\ UNCHANGED <<registry, events, request, mstate, ops>>

\* process_request after the workflow: the selected agent is looked up again
ReturnRouted ==
    /\ last_call' = NoRegistryCall
    /\ pc = "return"
    /\ result' = IF HasKey(agents, state.selected_agent)
                 THEN RouterResult(agents, request, state)
                 ELSE Failure("process_request", request, KeyError(state.selected_agent))
    /\ pc' = "done"
    /\ UNCHANGED <<registry, events, request, state, mstate, fwd, sent, ops>>

-----------------------------------------------------------------------------
(* process_multi_agent_request: analyze -> plan -> execute* -> aggregate *)

\* process_multi_agent_request is called
StartMultiRequest(req) ==
    /\ last_call' = NoRegistryCall
    /\ pc = "idle"
    /\ pc' = "m_analyze"
    /\ request' = req
    /\ mstate' = InitialMultiState
    /\ UNCHANGED <<registry, state, fwd, sent, ops, result>>

\* The analyze node
AnalyzeRequirements ==
    /\ last_call' = NoRegistryCall
    /\ pc = "m_analyze"
    /\ mstate' = _analyze_request_requirements(capability_registry, request, mstate)
    /\ pc' = "m_plan"
    /\ UNCHANGED <<registry, events, request, state, fwd, sent, ops, result>>

\* The plan node
Plan ==
    /\ last_call' = NoRegistryCall
    /\ pc = "m_plan"
    /\ mstate' = _create_execution_plan(agents, capability_registry, mstate)
    /\ pc' = "m_execute"
    /\ UNCHANGED <<registry, events, request, state, fwd, sent, ops, result>>

\* Where the conditional edge after the execute node leads
AfterExecute(st) ==
    IF _should_continue_execution(st) = "continue" THEN "m_execute" ELSE "m_aggregate"

\* The execute node up to its await: nothing to do past the end of the plan;
\* a missing agent is a step error; else message/send goes to the step's agent
ExecuteCurrentStep ==
    /\ last_call' = NoRegistryCall
    /\ pc = "m_execute"
    /\ IF mstate.current_step >= Len(mstate.execution_plan)
       THEN /\ pc' = AfterExecute(mstate)
            /\ UNCHANGED <<mstate, fwd, sent>>
       ELSE LET step == mstate.execution_plan[mstate.current_step + 1]
                full_task == _build_task_with_dependencies(step.task_description,
                                 step.input_dependencies, mstate.intermediate_results,
                                 request)
            IN  IF HasKey(agents, step.agent_id)
                THEN LET agent_card == Get(agents, step.agent_id)
                     IN  /\ fwd' = Call(agent_card.url, full_task, agent_card)
                         /\ sent' = Append(sent, [endpoint |-> agent_card.url,
                                                  task |-> full_task])
                         /\ pc' = "step_call"
                         /\ UNCHANGED mstate
                ELSE /\ mstate' = [mstate EXCEPT !.error =
                            Err("Step failed", <<mstate.current_step,
                                                 KeyError(step.agent_id)>>)]
                     /\ pc' = AfterExecute(mstate')
                     /\ UNCHANGED <<fwd, sent>>
    /\ UNCHANGED <<registry, events, request, state, ops, result>>

\* The aggregate node and the return of process_multi_agent_request: a lookup
\* of an agent no longer registered raises out of the workflow
Aggregate ==
    /\ last_call' = NoRegistryCall
    /\ pc = "m_aggregate"
    /\ result' = IF \A i \in 1..Len(AggregateLookups(mstate)) :
                       HasKey(agents, AggregateLookups(mstate)[i])
                 THEN MultiResult(request, _aggregate_results(agents, mstate))
                 ELSE Failure("process_multi_agent_request", request,
                              KeyError(AggregateLookups(mstate)[
                                  CHOOSE i \in 1..Len(AggregateLookups(mstate)) :
                                     /\ ~HasKey(agents, AggregateLookups(mstate)[i])
                                     /\ \A j \in 1..(i - 1) :
                                           HasKey(agents, AggregateLookups(mstate)[j])]))
    /\ pc' = "done"
    /\ UNCHANGED <<registry, events, request, state, mstate, fwd, sent, ops>>

-----------------------------------------------------------------------------
(* The remote call in flight *)

\* The caller's code after the call returned or raised
Resume(outcome) ==
    /\ fwd' = NoCall
    /\ IF pc = "route_call"
       THEN /\ state' = RouteResponse(state, fwd, outcome)
            /\ pc' = "return"
            /\ UNCHANGED mstate
       ELSE /\ mstate' = StepOutcome(mstate, fwd, outcome)
            /\ pc' = AfterExecute(mstate')
            /\ UNCHANGED state

\* The answer to message/send arrives
Reply(kind, text) ==
    /\ last_call' = NoRegistryCall
    /\ pc \in {"route_call", "step_call"}
    /\ fwd.phase = "sending"
    /\ IF OnReply(kind, text).kind = "continue"
       THEN /\ fwd' = [fwd EXCEPT !.phase = "polling"]
            /\ UNCHANGED <<pc, state, mstate>>
       ELSE Resume(OnReply(kind, text))
    /\ UNCHANGED <<registry, events, request, sent, ops, result>>

\* One tasks/get of the polling loop and its answer
Poll(kind, text) ==
    /\ last_call' = NoRegistryCall
    /\ pc \in {"route_call", "step_call"}
    /\ fwd.phase = "polling"
    /\ fwd.attempt < MaxPollAttempts
    /\ IF OnPoll(kind, text, fwd.attempt).kind = "continue"
       THEN /\ fwd' = [fwd EXCEPT !.attempt = @ + 1]
            /\ UNCHANGED <<pc, state, mstate>>
       ELSE Resume(OnPoll(kind, text, fwd.attempt))
    /\ UNCHANGED <<registry, events, request, sent, ops, result>>

\* The caller has its result; the next request may come
Finish ==
    /\ last_call' = NoRegistryCall
    /\ pc = "done"
    /\ pc' = "idle"
    /\ request' = <<>>
    /\ state' = InitialRouterState
    /\ mstate' = InitialMultiState
    /\ sent' = <<>>
    /\ result' = NoResult
    /\ ops' = 0
    /\ UNCHANGED <<registry, fwd>>

-----------------------------------------------------------------------------
(* OrchestratorAgentExecutor.cancel *)

\* cancel, called for the request in flight between two steps of its plan:
\* it raises UnsupportedOperationError and touches nothing
cancel ==
    /\ pc = "m_execute"
    /\ last_call' = Returned("cancel", request, [raised |-> "UnsupportedOperationError"])
    /\ UNCHANGED <<registry, events, pc, request, state, mstate, fwd, sent, ops, result>>

-----------------------------------------------------------------------------
(* Specification *)

\* The state after SmartOrchestrator() was constructed: the default agents
\* that answered are registered, in the order of their endpoints
Init ==
    /\ hashSeed \in {0, 1}
    /\ \E ok \in SUBSET (1..Len(default_agents)) :
          /\ agents = Loaded(Len(default_agents), ok)
          /\ skill_keywords = _update_skill_keywords(agents)
          /\ capability_registry = _update_capability_registry(agents, hashSeed)
    /\ pc = "idle"
    /\ request = <<>>
    /\ state = InitialRouterState
    /\ mstate = InitialMultiState
    /\ fwd = NoCall
    /\ sent = <<>>
    /\ ops = 0
    /\ last_call = NoRegistryCall
    /\ result = NoResult
    /\ events = <<>>

Next ==
    \/ \E endpoint \in Endpoints : register_agent(endpoint, TRUE) /\ UNCHANGED events
    \/ \E agent_identifier \in AgentNames : unregister_agent(agent_identifier) /\ UNCHANGED events
    \/ cancel
    \/ \E req \in Requests : StartRequest(req) /\ UNCHANGED events
    \/ Analyze
    \/ Route
    \/ ReturnRouted
    \/ \E req \in Requests : StartMultiRequest(req) /\ UNCHANGED events
    \/ AnalyzeRequirements
    \/ Plan
    \/ ExecuteCurrentStep
    \/ Aggregate
    \/ \E kind \in ReplyKinds : \E text \in RemoteTexts : Reply(kind, text)
    \/ \E kind \in PollKinds : \E text \in RemoteTexts : Poll(kind, text)
    \/ Finish /\ UNCHANGED events

Spec == Init /\ [][Next]_vars

\* The steps the event loop takes for a multi-agent request in flight: a node
\* of the workflow, or the answer of the remote agent to the call awaited
MultiAgentStep ==
    \/ AnalyzeRequirements
    \/ Plan
    \/ ExecuteCurrentStep
    \/ Aggregate
    \/ \E kind \in ReplyKinds : \E text \in RemoteTexts : Reply(kind, text)
    \/ \E kind \in PollKinds : \E text \in RemoteTexts : Poll(kind, text)

\* Multi-agent requests, one after the other, with agents unregistered in
\* between and while a request is in flight
MultiAgentNext ==
    \/ \E req \in Requests : StartMultiRequest(req) /\ UNCHANGED events
    \/ MultiAgentStep
    \/ \E agent_identifier \in AgentNames : unregister_agent(agent_identifier) /\ UNCHANGED events
    \/ Finish /\ UNCHANGED events

\* The workflow leaves one node for the next.  The analyze and the plan node
\* have no guard but the workflow's position, and their actions are the only
\* steps that move it so.
NodeRuns(from, to) == pc = from /\ pc' = to

\* The answer of the remote agent to the call awaited
RemoteAnswers ==
    \/ \E kind \in ReplyKinds : \E text \in RemoteTexts : Reply(kind, text)
    \/ \E kind \in PollKinds : \E text \in RemoteTexts : Poll(kind, text)

\* The event loop runs every coroutine that can run: a node that is due runs,
\* and every awaited remote call is answered (it returns or raises)
MultiAgentSpec ==
    /\ Init
    /\ [][MultiAgentNext]_vars
    /\ WF_pc(NodeRuns("m_analyze", "m_plan"))
    /\ WF_pc(NodeRuns("m_plan", "m_execute"))
    /\ WF_vars(ExecuteCurrentStep)
    /\ WF_vars(Aggregate)
    /\ WF_vars(RemoteAnswers)

-----------------------------------------------------------------------------
(* The worked examples: requests against the registry {MathAgent,           *)
(* CurrencyAgent}, which no registry operation changes                       *)

R_convert_then ==
    <<"c", "o", "n", "v", "e", "r", "t", " ", "1", "0", "0", " ", "u", "s",
      "d", " ", "t", "o", " ", "e", "u", "r", " ", "a", "n", "d", " ", "t",
      "h", "e", "n", " ", "w", "h", "a", "t", " ", "i", "s", " ", "t", "h",
      "e", " ", "r", "e", "s", "u", "l", "t", " ", "t", "i", "m", "e", "s",
      " ", "2">>
R_what_is ==
    <<"w", "h", "a", "t", " ", "i", "s", " ", "2", "+", "3">>
R_convert ==
    <<"c", "o", "n", "v", "e", "r", "t", " ", "1", "0", "0", " ", "u", "s",
      "d", " ", "t", "o", " ", "e", "u", "r">>
R_calculate_usd ==
    <<"c", "a", "l", "c", "u", "l", "a", "t", "e", " ", "u", "s", "d">>
\* A request naming every tag of the math agent
R_calculate_math ==
    <<"c", "a", "l", "c", "u", "l", "a", "t", "e", " ", "m", "a", "t", "h",
      " ", "2", "+", "3", "-", "1">>
\* A request holding a double quote, and one of two lines
R_math_quote_usd == <<"m", "a", "t", "h", " ", "\"", "u", "s", "d">>
R_usd_line_eur   == <<"u", "s", "d", "\n", "e", "u", "r">>
ExampleRequests ==
    {R_convert_then, R_what_is, R_convert, R_calculate_usd, R_calculate_math,
     R_math_quote_usd, R_usd_line_eur}

\* add_agent for each of the two agents, in either order
ExampleRegistries ==
    {Put(Put(<<>>, N_MathAgent, MathAgentCard), N_CurrencyAgent, CurrencyAgentCard),
     Put(Put(<<>>, N_CurrencyAgent, CurrencyAgentCard), N_MathAgent, MathAgentCard)}

ExampleInit ==
    /\ hashSeed \in {0, 1}
    /\ agents \in ExampleRegistries
    /\ skill_keywords = _update_skill_keywords(agents)
    /\ capability_registry = _update_capability_registry(agents, hashSeed)
    /\ pc = "idle"
    /\ request = <<>>
    /\ state = InitialRouterState
    /\ mstate = InitialMultiState
    /\ fwd = NoCall
    /\ sent = <<>>
    /\ ops = 0
    /\ last_call = NoRegistryCall
    /\ result = NoResult
    /\ events = <<>>

ExampleNext ==
    \/ \E req \in ExampleRequests : StartRequest(req) /\ UNCHANGED events
    \/ Analyze
    \/ Route
    \/ ReturnRouted
    \/ \E req \in ExampleRequests : StartMultiRequest(req) /\ UNCHANGED events
    \/ AnalyzeRequirements
    \/ Plan
    \/ ExecuteCurrentStep
    \/ Aggregate
    \/ \E kind \in ReplyKinds : \E text \in RemoteTexts : Reply(kind, text)
    \/ \E kind \in PollKinds : \E text \in RemoteTexts : Poll(kind, text)
    \/ Finish /\ UNCHANGED events

ExampleSpec == ExampleInit /\ [][ExampleNext]_vars

-----------------------------------------------------------------------------
(* The registry on its own: calls to add_agent, register_agent and          *)
(* unregister_agent with no request in flight                               *)

AllEndpoints == Endpoints \cup {U_math}

\* What a caller hands to add_agent: a card under an id that is not the
\* card's name (and that a default agent's name also gives)
AddedAgents == {<<N_Calc, MathAgentCard>>}

\* The identifiers of the requests' runs, the name of the example agent, the
\* id add_agent and a registration both give, and the empty identifier of the
\* command UNREGISTER_AGENT: without an argument
AllIdentifiers == Identifiers \cup {N_MathAgent, N_Calc, <<>>}

RegistryNext ==
    \/ \E added \in AddedAgents : add_agent(added[1], added[2]) /\ UNCHANGED events
    \/ \E endpoint \in AllEndpoints : \E fetched \in BOOLEAN :
          register_agent(endpoint, fetched) /\ UNCHANGED events
    \/ \E agent_identifier \in AllIdentifiers : unregister_agent(agent_identifier) /\ UNCHANGED events

RegistrySpec == Init /\ [][RegistryNext]_vars

-----------------------------------------------------------------------------
(* OrchestratorAgentExecutor.execute: a user request is run through the      *)
(* multi-agent workflow when the detector flags it, through the router      *)
(* otherwise or when the workflow did not end as a plan of several steps    *)

\* The connecting words of _detect_multi_agent_need
detector_indicators ==
    {<<"a", "n", "d", " ", "t", "h", "e", "n">>, <<"t", "h", "e", "n">>,
     <<"a", "f", "t", "e", "r">>,
     <<"f", "o", "l", "l", "o", "w", "e", "d", " ", "b", "y">>,
     <<"n", "e", "x", "t">>, <<"a", "n", "d", " ", "a", "l", "s", "o">>,
     <<"p", "l", "u", "s">>,
     <<"c", "o", "m", "b", "i", "n", "e", "d", " ", "w", "i", "t", "h">>,
     <<"t", "o", "g", "e", "t", "h", "e", "r", " ", "w", "i", "t", "h">>,
     <<"a", "n", "d">>}

math_operators == {"+", "-", "*", "/", "="}

\* The score the detector gives one capability: 2 when it is in the query,
\* else 1 for each of its words longer than 2 that is
DetectorScore(capability, query_lower) ==
    IF Contains(capability, query_lower) THEN 2
    ELSE Len(SelectSeq(Split(capability),
                       LAMBDA w : Len(w) > 2 /\ Contains(w, query_lower)))

\* _detect_multi_agent_need
_detect_multi_agent_need(reg, ag, query) ==
    LET query_lower == Lower(query)
        ids == Dedup(Flatten([e \in 1..Len(reg) |-> reg[e].agent_ids]))
        capsOf(id) == SelectSeq(reg, LAMBDA e : InSeq(id, e.agent_ids))
        score(id) == SumSeq([e \in 1..Len(capsOf(id)) |->
                               DetectorScore(capsOf(id)[e].cap, query_lower)])
        scores == [i \in 1..Len(ids) |-> score(ids[i])]
        matching == SelectSeq(scores, LAMBDA s : s > 0)
        top == CHOOSE s \in {matching[i] : i \in 1..Len(matching)} :
                  \A i \in 1..Len(matching) : matching[i] <= s
        second == CHOOSE s \in {matching[i] : i \in 1..Len(matching)} :
                     \E k \in 1..Len(matching) :
                        /\ matching[k] = top
                        /\ \A i \in 1..Len(matching) : i # k => matching[i] <= s
        has_connectors == \E w \in detector_indicators : Contains(w, query_lower)
        has_math_ops == \E o \in math_operators : Contains(<<o>>, query_lower)
        query_words == Split(query_lower)
        agents_with_matches ==
            Cardinality({i \in 1..Len(ids) :
                \E e \in 1..Len(capsOf(ids[i])) :
                   ~Disjoint(Split(capsOf(ids[i])[e].cap), query_words)})
    IN  IF reg = <<>> \/ Len(ag) < 2 THEN FALSE
        ELSE IF Len(matching) >= 2
        THEN /\ Len(SelectSeq(matching, LAMBDA s : s >= 2)) > 1
             /\ 2 * second >= top
        ELSE \/ has_connectors /\ Len(matching) > 0
             \/ has_math_ops /\ Len(matching) > 1
             \/ agents_with_matches > 1

\* str.startswith(prefix)
StartsWith(s, prefix) == Len(s) >= Len(prefix) /\ SubSeq(s, 1, Len(prefix)) = prefix

\* str.strip()
RECURSIVE Strip(_)
Strip(s) ==
    IF s = <<>> THEN s
    ELSE IF s[1] \in Whitespace THEN Strip(Tail(s))
    ELSE IF s[Len(s)] \in Whitespace THEN Strip(SubSeq(s, 1, Len(s) - 1))
    ELSE s

\* str.replace(sub, ""): every occurrence of sub, left to right, taken out
RECURSIVE Remove(_, _)
Remove(s, sub) ==
    IF Len(s) < Len(sub) THEN s
    ELSE IF SubSeq(s, 1, Len(sub)) = sub THEN Remove(SubSeq(s, Len(sub) + 1, Len(s)), sub)
    ELSE <<s[1]>> \o Remove(Tail(s), sub)

\* The command words of execute
LIST_AGENTS == <<"L", "I", "S", "T", "_", "A", "G", "E", "N", "T", "S">>
REGISTER_AGENT ==
    <<"R", "E", "G", "I", "S", "T", "E", "R", "_", "A", "G", "E", "N", "T", ":">>
UNREGISTER_AGENT == <<"U", "N">> \o REGISTER_AGENT

\* The commands sent to the executor: the list, a registration, an
\* unregistration by name after a blank, one without an identifier, and one
\* whose identifier reads like a request of several steps
Commands ==
    {LIST_AGENTS,
     REGISTER_AGENT \o U_3,
     UNREGISTER_AGENT \o <<" ", "c", "a", "l", "c">>,
     UNREGISTER_AGENT,
     UNREGISTER_AGENT \o R_add_then}

\* get_available_agents: one entry per agent, in registry order
get_available_agents(ag) ==
    [i \in 1..Len(ag) |->
        [agent_id |-> ag[i].id, name |-> ag[i].card.name,
         description |-> ag[i].card.description, endpoint |-> ag[i].card.url,
         skills |-> [k \in 1..Len(ag[i].card.skills) |->
                        [name |-> ag[i].card.skills[k].name,
                         description |-> ag[i].card.skills[k].description]],
         keywords |-> Flatten([k \in 1..Len(ag[i].card.skills) |->
                                  ag[i].card.skills[k].tags])]]

\* What execute puts on the event queue
TaskEvent == [kind |-> "task"]
Working(text) == [kind |-> "working", text |-> text]
Artifact(text) == [kind |-> "artifact", name |-> "orchestrator_result", text |-> text]
Completed == [kind |-> "completed"]

\* new_task(context.message) is enqueued when the context has no task
NewTask(has_task) == IF has_task THEN <<>> ELSE <<TaskEvent>>

\* The status update of the multi-agent branch
MultiAgentUpdate == Working("Analyzing request for multi-agent collaboration...")

\* response_text of a registry command, from the dict the orchestrator returned
CommandText(done, reply) ==
    IF reply.success
    THEN [status |-> done, agent_id |-> reply.agent_id]
    ELSE [status |-> "failed", error |-> reply.error]

\* response_text of a request, from the dict the orchestrator returned
ResponseText(res) ==
    IF res.op = "process_multi_agent_request"
    THEN [status |-> "Multi-Agent Collaboration (Auto-detected)",
          confidence |-> res.confidence, reasoning |-> res.reasoning,
          response |-> res.response]
    ELSE IF res.success
    THEN [status |-> "Routed to", selected_agent_name |-> res.selected_agent_name,
          confidence |-> res.confidence, reasoning |-> res.reasoning,
          response |-> res.response]
    ELSE [status |-> "Error", error |-> res.error]

\* An executor that knows the list and the registration command only
execute_without_unregister(query, has_task, has_message) ==
    /\ pc = "idle"
    /\ IF ~has_task /\ ~has_message
       THEN /\ events' = <<>>
            /\ last_call' = Returned("execute", query, [raised |-> "InvalidParamsError"])
            /\ UNCHANGED <<registry, pc, request, state, mstate, fwd, sent, ops, result>>
       ELSE IF Strip(query) = LIST_AGENTS
       THEN /\ events' = NewTask(has_task) \o
                   <<Working("Retrieving available agents..."),
                     Artifact([type |-> "agent_list",
                               agents |-> get_available_agents(agents),
                               total_count |-> Len(agents)]),
                     Completed>>
            /\ last_call' = Returned("get_available_agents", <<>>,
                                     [listed |-> Len(agents)])
            /\ UNCHANGED <<registry, pc, request, state, mstate, fwd, sent, ops, result>>
       ELSE IF StartsWith(query, REGISTER_AGENT)
       THEN /\ \E fetched \in BOOLEAN :
                  register_agent(Strip(Remove(query, REGISTER_AGENT)), fetched)
            /\ events' = NewTask(has_task) \o
                   <<Working("Registering agent from"),
                     Artifact(CommandText("registered", last_call'.reply)),
                     Completed>>
       ELSE IF _detect_multi_agent_need(capability_registry, agents, query)
       THEN /\ StartMultiRequest(query)
            /\ events' = NewTask(has_task) \o <<MultiAgentUpdate>>
       ELSE /\ StartRequest(query)
            /\ events' = NewTask(has_task)

\* execute up to its first call of the orchestrator, and for a command up to
\* its end: without a task and without a message it raises; LIST_AGENTS, a
\* registration and an unregistration are answered from the registry; any
\* other query goes to the workflow the detector chooses
execute(query, has_task, has_message) ==
    /\ pc = "idle"
    /\ IF ~has_task /\ ~has_message
       THEN /\ events' = <<>>
            /\ last_call' = Returned("execute", query, [raised |-> "InvalidParamsError"])
            /\ UNCHANGED <<registry, pc, request, state, mstate, fwd, sent, ops, result>>
       ELSE IF Strip(query) = LIST_AGENTS
       THEN /\ events' = NewTask(has_task) \o
                   <<Working("Retrieving available agents..."),
                     Artifact([type |-> "agent_list",
                               agents |-> get_available_agents(agents),
                               total_count |-> Len(agents)]),
                     Completed>>
            /\ last_call' = Returned("get_available_agents", <<>>,
                                     [listed |-> Len(agents)])
            /\ UNCHANGED <<registry, pc, request, state, mstate, fwd, sent, ops, result>>
       ELSE IF StartsWith(query, REGISTER_AGENT)
       THEN /\ \E fetched \in BOOLEAN :
                  register_agent(Strip(Remove(query, REGISTER_AGENT)), fetched)
            /\ events' = NewTask(has_task) \o
                   <<Working("Registering agent from"),
                     Artifact(CommandText("registered", last_call'.reply)),
                     Completed>>
       ELSE IF StartsWith(query, UNREGISTER_AGENT)
       THEN /\ unregister_agent(Strip(Remove(query, UNREGISTER_AGENT)))
            /\ events' = NewTask(has_task) \o
                   <<Working("Unregistering agent"),
                     Artifact(CommandText("unregistered", last_call'.reply)),
                     Completed>>
       ELSE IF _detect_multi_agent_need(capability_registry, agents, query)
       THEN /\ StartMultiRequest(query)
            /\ events' = NewTask(has_task) \o <<MultiAgentUpdate>>
       ELSE /\ StartRequest(query)
            /\ events' = NewTask(has_task)

\* The multi-agent result execute answers with: a success whose plan has
\* several steps
UsesMultiAgentResult ==
    /\ result.op = "process_multi_agent_request"
    /\ result.success
    /\ result.execution_type = "multi"
    /\ Len(result.execution_plan) > 1

\* execute falls back to process_request with the same request
fall_back ==
    /\ pc = "done"
    /\ result.op = "process_multi_agent_request"
    /\ ~UsesMultiAgentResult
    /\ pc' = "analyze"
    /\ state' = InitialRouterState
    /\ result' = NoResult
    /\ last_call' = NoRegistryCall
    /\ UNCHANGED <<registry, events, request, mstate, fwd, sent, ops>>

\* An executor that completes the task of a routed request only and reports
\* a failure as one more status update
complete_only_when_routed ==
    /\ pc = "done"
    /\ result.op = "process_request" \/ UsesMultiAgentResult
    /\ events' = events
                 \o (IF InSeq(MultiAgentUpdate, events) THEN <<>>
                     ELSE <<Working("Processing request through orchestrator...")>>)
                 \o (IF result.success
                     THEN <<Artifact(ResponseText(result)), Completed>>
                     ELSE <<Working("Error")>>)
    /\ Finish

\* execute formats the result it has, adds the artifact and completes the
\* task; on the single-agent branch (the one that sent no update before the
\* orchestrator was called) the status update comes first
complete ==
    /\ pc = "done"
    /\ result.op = "process_request" \/ UsesMultiAgentResult
    /\ events' = events
                 \o (IF InSeq(MultiAgentUpdate, events) THEN <<>>
                     ELSE <<Working("Processing request through orchestrator...")>>)
                 \o <<Artifact(ResponseText(result)), Completed>>
    /\ Finish

ExecutorNext ==
    \/ \E query \in Requests \cup Commands : \E has_task, has_message \in BOOLEAN :
          execute(query, has_task, has_message)
    \/ Analyze
    \/ Route
    \/ ReturnRouted
    \/ AnalyzeRequirements
    \/ Plan
    \/ ExecuteCurrentStep
    \/ Aggregate
    \/ \E kind \in ReplyKinds : \E text \in RemoteTexts : Reply(kind, text)
    \/ \E kind \in PollKinds : \E text \in RemoteTexts : Poll(kind, text)
    \/ fall_back
    \/ complete

ExecutorSpec == Init /\ [][ExecutorNext]_vars

\* ExecutorSpec with the event loop running the coroutine of the call in
\* progress whenever it can run, and every awaited remote call answered
ExecutorFairSpec ==
    /\ Init
    /\ [][ExecutorNext]_vars
    /\ WF_pc(NodeRuns("analyze", "route"))
    /\ WF_vars(Route)
    /\ WF_vars(ReturnRouted)
    /\ WF_pc(NodeRuns("m_analyze", "m_plan"))
    /\ WF_pc(NodeRuns("m_plan", "m_execute"))
    /\ WF_vars(ExecuteCurrentStep)
    /\ WF_vars(Aggregate)
    /\ WF_vars(RemoteAnswers)
    /\ WF_vars(fall_back)
    /\ WF_vars(complete)

-----------------------------------------------------------------------------
(* Claims *)

\* process_request returns in this step
RouterReturns == pc \in {"route", "return"} /\ pc' = "done"

\* C1: with at least one agent registered (when the request is analysed and
\* when it returns), process_request returns success = true and its selected
\* agent is a registered agent; it never returns a failure result.
C1_RouteAlwaysDecides ==
    [][(RouterReturns /\ ~HasError(state) /\ agents # <<>>)
         => (result'.success /\ HasKey(agents', result'.selected_agent_id))]_vars

\* C2: with an empty registry process_request ends in a failure whose error is
\* "No agents available for routing", and nothing is forwarded.
C2_NoAgentsReported ==
    (pc = "done" /\ result.op = "process_request"
       /\ state.error.msg = "No agents available for routing")
    => (/\ ~result.success
        /\ result.error.msg = "No agents available for routing"
        /\ sent = <<>>)

\* The least position of the registry whose agent has the highest score
FirstMax(ag, kw, req) ==
    CHOOSE i \in 1..Len(ag) :
       /\ \A j \in 1..Len(ag) : _calculate_agent_score(kw, req, ag[j].card).score
                                 <= _calculate_agent_score(kw, req, ag[i].card).score
       /\ \A j \in 1..(i - 1) : _calculate_agent_score(kw, req, ag[j].card).score
                                 < _calculate_agent_score(kw, req, ag[i].card).score

\* C3: the analysis selects the agent with the highest score, the earliest
\* registered one among those tied on it, and so the first registered agent
\* when no agent scores above 0.
C3_FirstHighestSelected ==
    [][(pc = "analyze" /\ pc' = "route" /\ agents # <<>>)
         => state'.selected_agent = agents[FirstMax(agents, skill_keywords, request)].id]_vars

\* Two agents tied on a positive highest score were analysed and the first
\* registered one was selected
C3_Witness ==
    /\ pc = "route"
    /\ Len(state.metadata.agent_scores) = 2
    /\ state.metadata.agent_scores[1].score = state.metadata.agent_scores[2].score
    /\ state.metadata.agent_scores[1].score > 0
    /\ state.selected_agent = state.metadata.agent_scores[1].id

\* C4: when forwarding to the selected agent failed, process_request returns
\* success = true with status routing_only and a response naming the agent,
\* its endpoint, the confidence and the reasoning.
C4_TransportFailureDegrades ==
    [][(pc = "return" /\ pc' = "done" /\ state.metadata.status = "routing_only")
         => (/\ result'.success
             /\ result'.metadata.status = "routing_only"
             /\ result'.response.kind = "routing_only"
             /\ result'.response.agent_name = Get(agents', result'.selected_agent_id).name
             /\ result'.response.endpoint = state.metadata.agent_endpoint
             /\ result'.response.confidence = result'.confidence
             /\ result'.response.reasoning = result'.reasoning)]_vars

\* C5: an error met while handling a request is reported with success = false,
\* never with success = true.
C5_ErrorsReportedAsFailure ==
    (pc = "done" /\ (HasError(state) \/ HasError(mstate))) => ~result.success

\* A plan step has recorded an error and the request has not returned yet
StepFailed == mstate.error.msg = "Step failed" /\ pc \notin {"idle", "done"}

\* C6: once a plan step has recorded an error nothing more is sent, the cursor
\* stays on the failed step, the stored results stay, and the workflow goes to
\* the aggregation, whose response is failure-tagged and carries the error.
C6_HaltOnStepError ==
    [][StepFailed
         => (/\ pc = "m_aggregate"
             /\ mstate.error.arg[1] = mstate.current_step
             /\ sent' = sent
             /\ mstate' = mstate
             /\ pc' \in {"m_aggregate", "done"}
             /\ pc' = "done" =>
                   /\ result'.op = "process_multi_agent_request"
                   /\ result'.response = [kind |-> "Multi-agent execution failed",
                                          error |-> mstate.error])]_vars

\* The second step of a plan failed after the first one's result was stored,
\* and the request returned
C6_Witness ==
    /\ pc = "done"
    /\ mstate.error.msg = "Step failed"
    /\ mstate.current_step = 1
    /\ Len(mstate.intermediate_results) = 1
    /\ Len(sent) = 2

FailureTexts == {"Agent task failed", "Task did not complete within timeout"}

\* C7: a remote task that failed or did not complete within the polls is never
\* stored as a step's result (the step records an error instead).
C7_FailedTaskIsStepError ==
    \A i \in 1..Len(mstate.intermediate_results) :
       mstate.intermediate_results[i].text \notin FailureTexts

\* C8: when step k > 0 fails, what process_multi_agent_request returns holds
\* the results of the steps 0..k-1.
C8_PartialResultsReturned ==
    (pc = "done" /\ mstate.error.msg = "Step failed")
    => (/\ result.op = "process_multi_agent_request"
        /\ result.success
        /\ \A k \in 1..mstate.current_step :
              /\ HasResult(mstate.intermediate_results, OutputKey(k - 1))
              /\ \E m \in 1..Len(result.metadata) :
                    /\ result.metadata[m].step = k - 1
                    /\ result.metadata[m].result =
                          ResultOr(mstate.intermediate_results, OutputKey(k - 1)))

\* Step 1 failed, step 0 had completed, and the request returned
C8_Witness ==
    /\ pc = "done"
    /\ mstate.error.msg = "Step failed"
    /\ mstate.current_step = 1
    /\ result.metadata # <<>>
    /\ result.metadata[1].result \in RemoteTexts

\* C9: with a non-empty registry plan construction finds an agent for every
\* requirement and does not fail with "No agent found for capability".
C9_PlanNeverFailsWithAgents ==
    [][(pc = "m_plan" /\ pc' = "m_execute" /\ agents # <<>>)
         => mstate'.error.msg # "No agent found for capability"]_vars

\* Plan construction has failed for want of an agent
PlanningFailed == mstate.error.msg = "No agent found for capability"

\* C10: when plan construction fails nothing is forwarded for the request, and
\* the workflow ends with the planning error as its outcome.
C10_NoCallAfterPlanningError ==
    PlanningFailed
    => (/\ sent = <<>>
        /\ fwd = NoCall
        /\ mstate.execution_plan = <<>>
        /\ pc \in {"m_execute", "m_aggregate", "done"}
        /\ pc = "done" =>
              /\ result.op = "process_multi_agent_request"
              /\ result.response = [kind |-> "Multi-agent execution failed",
                                    error |-> mstate.error])

\* The second of two requirements found no agent, the first had one, and the
\* request returned
C10_Witness ==
    /\ pc = "done"
    /\ PlanningFailed
    /\ Len(mstate.task_requirements) = 2
    /\ mstate.error.arg = mstate.task_requirements[2].capability_type

\* The assigned agents of the plan, as a set
PlanAgents == {mstate.execution_plan[i].agent_id : i \in 1..Len(mstate.execution_plan)}

\* C11: with the registry {MathAgent, CurrencyAgent} the request "convert 100
\* usd to eur and then what is the result times 2" is planned as exactly 2
\* steps whose agents are MathAgent and CurrencyAgent.
C11_ExampleTwoStepPlan ==
    (pc = "m_execute" /\ request = R_convert_then)
    => (/\ mstate.execution_type = "multi"
        /\ Len(mstate.execution_plan) = 2
        /\ PlanAgents = {N_MathAgent, N_CurrencyAgent})

\* The score the analysis recorded for an agent
RecordedScore(id) ==
    state.metadata.agent_scores[
        CHOOSE i \in 1..Len(state.metadata.agent_scores) :
           state.metadata.agent_scores[i].id = id].score

\* MathAgent's card without the tag "+" (the keywords of the skill as they are)
MathAgentWithoutPlus ==
    AgentCard(N_MathAgent, U_math, <<>>,
              <<Skill(T_arithmetic_calculation, <<>>, <<T_math, T_calculate, T_minus>>)>>)

\* C12: with the registry {MathAgent, CurrencyAgent} "what is 2+3" is routed to
\* MathAgent with a score above 0 that includes the "+" tag match, and "convert
\* 100 usd to eur" is routed to CurrencyAgent.
C12_ExampleRouting ==
    /\ (pc \in {"route", "route_call", "return"} /\ request = R_what_is)
       => (/\ state.selected_agent = N_MathAgent
           /\ RecordedScore(N_MathAgent) > 0
           /\ InSeq(T_plus, state.reasoning.keywords)
           /\ RecordedScore(N_MathAgent) =
                 10 + _calculate_agent_score(skill_keywords, request,
                                             MathAgentWithoutPlus).score
           /\ \A i \in 1..Len(sent) : sent[i].endpoint = U_math)
    /\ (pc \in {"route", "route_call", "return"} /\ request = R_convert)
       => (/\ state.selected_agent = N_CurrencyAgent
           /\ \A i \in 1..Len(sent) : sent[i].endpoint = U_currency)

\* "what is 2+3" has been sent to MathAgent
C12_Witness ==
    /\ pc = "route_call"
    /\ request = R_what_is
    /\ sent = <<[endpoint |-> U_math, task |-> R_what_is]>>

\* The positively scored capabilities of the index for the request in hand,
\* best first
Scored ==
    SortedByScore(SelectSeq(
        [i \in 1..Len(capability_registry) |->
            [cap |-> capability_registry[i].cap,
             score |-> _score_capability_match(Lower(request),
                                               capability_registry[i].cap)]],
        LAMBDA e : e.score > 0))

\* The request in hand holds a connective phrase
HasConnective ==
    \E phrase \in {<<"a","n","d"," ","t","h","e","n">>, <<"t","h","e","n">>,
                    <<"a","f","t","e","r">>, <<"f","o","l","l","o","w","e","d"," ","b","y">>,
                    <<"n","e","x","t">>, <<"a","n","d"," ","a","l","s","o">>,
                    <<"c","o","m","b","i","n","e","d"," ","w","i","t","h">>,
                    <<"t","o","g","e","t","h","e","r"," ","w","i","t","h">>} :
       \E i \in 1..Len(request) :
          i + Len(phrase) - 1 <= Len(request)
          /\ \A k \in 1..Len(phrase) : LowerChar(request[i + k - 1]) = phrase[k]

\* Two of the five best capabilities, the higher scored above 1.0 and the
\* other above 0.5, are handled by agent sets with no agent in common
TwoDomains ==
    \E a, b \in 1..Len(Scored) :
       /\ a < b /\ b <= 5
       /\ Scored[a].score > 10 /\ Scored[b].score > 5
       /\ {x \in {y.id : y \in {agents[n] : n \in 1..Len(agents)}} :
              InSeq(x, CapAgents(capability_registry, Scored[a].cap))
              /\ InSeq(x, CapAgents(capability_registry, Scored[b].cap))} = {}

\* C13: is_multi_step is true for every request with a connective phrase,
\* and false for a request without one whose five best capabilities hold no
\* two of disjoint agent sets scored above 1.0 and above 0.5.
C13_MultiStepDetection ==
    pc \in {"m_analyze", "m_plan"}
    => (/\ HasConnective
           => _is_multi_step_request(capability_registry, Lower(request), Scored)
        /\ (~HasConnective /\ ~TwoDomains)
           => ~_is_multi_step_request(capability_registry, Lower(request), Scored))

\* A request without a connective phrase, with two strong capabilities of the
\* same agent, was analysed as a single-capability request
C13_Witness ==
    /\ pc = "m_plan"
    /\ ~HasConnective
    /\ Len(Scored) >= 2
    /\ Scored[1].score > 10
    /\ Scored[2].score > 5
    /\ ~TwoDomains
    /\ mstate.execution_type = "single"

\* The registered agent ids, as a set
Registered == {agents[n].id : n \in 1..Len(agents)}

\* The capability keywords an agent's card gives (stoplist pruning apart)
CardKeywords(card) ==
    UNION {{caps[k] : k \in 1..Len(caps)} : caps \in {AgentCapabilities(card)}}

\* C14: after any sequence of add_agent, register_agent and unregister_agent
\* calls, successful or not, the capability index and the skill-keyword table
\* are what a rebuild from nothing over the registry gives, and hold nothing
\* that no registered agent contributes.
C14_TablesAreFreshRebuild ==
    /\ capability_registry = _update_capability_registry(agents, hashSeed)
    /\ skill_keywords = _update_skill_keywords(agents)
    /\ \A e \in 1..Len(capability_registry) :
          \A k \in 1..Len(capability_registry[e].agent_ids) :
             capability_registry[e].agent_ids[k] \in Registered
    /\ \A n \in 1..Len(agents) : \A caps \in {CardKeywords(agents[n].card)} :
          \A e \in 1..Len(capability_registry) :
             InSeq(agents[n].id, capability_registry[e].agent_ids)
                => capability_registry[e].cap \in caps
    /\ \A e \in 1..Len(skill_keywords) :
          \A k \in 1..Len(skill_keywords[e].keywords) :
             \E n \in 1..Len(agents) : \E s \in 1..Len(agents[n].card.skills) :
                /\ agents[n].card.skills[s].name = skill_keywords[e].name
                /\ InSeq(skill_keywords[e].keywords[k],
                         SkillKeywordParts(agents[n].card.skills[s]))

\* A registration has just replaced an agent by another card of the same
\* name, and a keyword of the replaced card is gone from the index
C14_Witness ==
    /\ last_call.op = "register_agent"
    /\ last_call.reply.success
    /\ HasKey(last_call.before.agents, last_call.reply.agent_id)
    /\ Get(last_call.before.agents, last_call.reply.agent_id)
          # Get(agents, last_call.reply.agent_id)
    /\ HasCap(last_call.before.capability_registry, T_convert)
    /\ ~HasCap(capability_registry, T_convert)

\* C15: the index holds no keyword attributed to every registered agent, and
\* none of the stoplist words is a key of the index.
C15_NoCommonKeyword ==
    \A e \in 1..Len(capability_registry) :
       /\ Len(capability_registry[e].agent_ids) < Len(agents)
       /\ capability_registry[e].cap \notin common_words

\* C16: every keyword of the index maps to at least one agent id, no id is
\* listed twice under a keyword, and every id listed is a registered agent.
C16_IndexWellFormed ==
    \A e \in 1..Len(capability_registry) :
       LET ids == capability_registry[e].agent_ids
       IN  /\ Len(ids) >= 1
           /\ \A a, b \in 1..Len(ids) : ids[a] = ids[b] => a = b
           /\ \A a \in 1..Len(ids) : ids[a] \in Registered

\* An agent whose keywords another agent shared has just been unregistered
C16_Witness ==
    /\ last_call.op = "unregister_agent"
    /\ last_call.reply.success
    /\ \E e \in 1..Len(last_call.before.capability_registry) :
          /\ Len(last_call.before.capability_registry[e].agent_ids) = 2
          /\ InSeq(last_call.reply.agent_id,
                   last_call.before.capability_registry[e].agent_ids)
          /\ CapAgents(capability_registry, last_call.before.capability_registry[e].cap)
                # <<>>

\* No agent of the registry shares a keyword with the card
SharesNoKeyword(ag, card) ==
    \A n \in 1..Len(ag) : CardKeywords(ag[n].card) \cap CardKeywords(card) = {}

\* C17: registering agent A into a registry in which no agent shares A's
\* keywords and then unregistering A (by the id the registration returned)
\* leaves the registry and the capability index as they were before.
C17_RegisterUnregisterRoundTrip ==
    [][(/\ last_call.op = "register_agent"
        /\ last_call.reply.success
        /\ SharesNoKeyword(last_call.before.agents, CardAt(last_call.arg))
        /\ last_call'.op = "unregister_agent"
        /\ last_call'.arg = last_call.reply.agent_id)
       => (/\ agents' = last_call.before.agents
           /\ capability_registry' = last_call.before.capability_registry)]_vars

\* The agent the identifier resolves to by the order of the criteria: an exact
\* id, else an exact endpoint, else a name in any case, else part of an
\* endpoint (the first in registry order within one criterion); 0 if none
ByPriority(ag, identifier) ==
    LET first(P(_)) == IF \E i \in 1..Len(ag) : P(i)
                       THEN CHOOSE i \in 1..Len(ag) : P(i) /\ \A j \in 1..(i - 1) : ~P(j)
                       ELSE 0
        by_id   == first(LAMBDA i : ag[i].id = identifier)
        by_url  == first(LAMBDA i : ag[i].card.url = identifier)
        by_name == first(LAMBDA i : Lower(ag[i].card.name) = Lower(identifier))
        by_part == first(LAMBDA i : Contains(identifier, ag[i].card.url))
    IN  IF by_id # 0 THEN by_id
        ELSE IF by_url # 0 THEN by_url
        ELSE IF by_name # 0 THEN by_name
        ELSE by_part

\* C18: unregister removes exactly the agent its identifier resolves to by the
\* order of the criteria, whatever the registry order.
C18_UnregisterByPriority ==
    (last_call.op = "unregister_agent" /\ last_call.reply.success)
    => LET i == ByPriority(last_call.before.agents, last_call.arg)
       IN  /\ i # 0
           /\ last_call.reply.agent_id = last_call.before.agents[i].id
           /\ agents = Del(last_call.before.agents, last_call.before.agents[i].id)
           /\ Len(agents) = Len(last_call.before.agents) - 1

\* C19: unregister with an identifier that matches no registered agent returns
\* a failure listing the known agent ids and changes none of the three tables,
\* so that the same call again finds the same registry.
C19_UnknownIdentifierFails ==
    (last_call.op = "unregister_agent"
       /\ ByPriority(last_call.before.agents, last_call.arg) = 0)
    => (/\ ~last_call.reply.success
        /\ last_call.reply.error =
              Err("Agent not found", <<last_call.arg, Keys(last_call.before.agents)>>)
        /\ Tables = last_call.before
        /\ ByPriority(agents, last_call.arg) = 0)

\* The unregistration of an agent that is not registered, others being, has
\* just failed
C19_Witness ==
    /\ last_call.op = "unregister_agent"
    /\ last_call.arg = N_MathAgent
    /\ ~last_call.reply.success
    /\ agents # <<>>

\* C20: register_agent whose card fetch failed returns a failure naming the
\* endpoint and changes none of the three tables.
C20_FetchFailureLeavesRegistry ==
    (last_call.op = "register_agent" /\ ~last_call.fetched)
    => (/\ ~last_call.reply.success
        /\ last_call.reply.error =
              Err("Failed to fetch agent card from", last_call.arg)
        /\ Tables = last_call.before)

\* The fetch from the endpoint of a registered agent has just failed
C20_Witness ==
    /\ last_call.op = "register_agent"
    /\ ~last_call.fetched
    /\ ~last_call.reply.success
    /\ \E n \in 1..Len(agents) : agents[n].card.url = last_call.arg

BestRecorded ==
    LET scores == state.metadata.agent_scores
    IN  IF scores = <<>> THEN 0
        ELSE CHOOSE s \in {scores[i].score : i \in 1..Len(scores)} :
                \A i \in 1..Len(scores) : scores[i].score <= s

\* best_score as _analyze_request leaves it: the highest score, or 0.3 when
\* no agent scored (in tenths)
best_score == IF BestRecorded > 0 THEN BestRecorded ELSE 3

\* C22: the confidence of every routing decision is min(best_score / 5.0, 1.0)
\* and lies within [0.0, 1.0] (confidence in hundredths, scores in tenths:
\* best_score / 5.0 is twice the score).
C22_ConfidenceClamped ==
    state.metadata.agent_scores # <<>>
    => /\ state.confidence = Min(best_score * 2, 100)
       /\ state.confidence >= 0
       /\ state.confidence <= 100

\* A decision whose best score is above 5.0 has been taken
C22_Witness ==
    /\ state.metadata.agent_scores # <<>>
    /\ BestRecorded > 50
    /\ state.confidence = 100

\* C23: when no registered agent scores above 0, the decision falls back to
\* the first registered agent and reports a confidence of exactly 0.3.
C23_FallbackConfidence ==
    (state.metadata.agent_scores # <<>> /\ BestRecorded = 0)
    => /\ state.selected_agent = state.metadata.agent_scores[1].id
       /\ state.confidence = 30

\* The analysis of the request has just been made: the tables are those it
\* read
Analyzed ==
    /\ pc = "route"
    /\ last_call = NoRegistryCall
    /\ state.metadata.agent_scores # <<>>

\* The agent's tags and the keywords of its skills that occur in the request
Occurring(req, card) ==
    {Lower(TagsOf(card)[i]) : i \in {j \in 1..Len(TagsOf(card)) :
                                       Contains(Lower(TagsOf(card)[j]), Lower(req))}}
    \cup UNION {{KeywordsOf(skill_keywords, card.skills[s].name)[k] :
                   k \in {j \in 1..Len(KeywordsOf(skill_keywords, card.skills[s].name)) :
                            Contains(KeywordsOf(skill_keywords, card.skills[s].name)[j],
                                     Lower(req))}} :
                s \in 1..Len(card.skills)}

\* The requests a score is compared over
ComparedRequests == Requests \cup ExampleRequests

\* C24: the score of an agent for a request is never negative, and with the
\* registry fixed it does not decrease from a request to one in which every
\* tag and skill keyword of the agent that occurs in the first occurs too.
C24_ScoreMonotone ==
    Analyzed =>
       \A n \in 1..Len(agents) : \A mine \in {Occurring(request, agents[n].card)} :
          /\ RecordedScore(agents[n].id) >= 0
          /\ \A r \in ComparedRequests :
                \A other \in {_calculate_agent_score(skill_keywords, r, agents[n].card).score} :
                \A theirs \in {Occurring(r, agents[n].card)} :
                   /\ other >= 0
                   /\ theirs \subseteq mine => RecordedScore(agents[n].id) >= other
                   /\ mine \subseteq theirs => other >= RecordedScore(agents[n].id)

\* The request analysed names more of the math agent's tags than "what is
\* 2+3" does, the "+" included, and scores more
C24_Witness ==
    /\ Analyzed
    /\ request = R_calculate_math
    /\ Occurring(R_what_is, MathAgentCard) # {}
    /\ Occurring(R_what_is, MathAgentCard) \subseteq Occurring(request, MathAgentCard)
    /\ Occurring(R_what_is, MathAgentCard) # Occurring(request, MathAgentCard)
    /\ RecordedScore(N_MathAgent) >
          _calculate_agent_score(skill_keywords, R_what_is, MathAgentCard).score

\* The score the agent's own card gives: 1.0 for each of its tags in the
\* request, 1.5 for each of its skills one of whose own keywords (tags, name,
\* first description words) is in the request; and the names of those skills
OwnScore(req, card) ==
    LET hits    == SelectSeq(TagsOf(card), LAMBDA k : Contains(Lower(k), Lower(req)))
        matched == SelectSeq(card.skills,
                      LAMBDA s : \E k \in 1..Len(SkillKeywordParts(s)) :
                                    Contains(SkillKeywordParts(s)[k], Lower(req)))
    IN  [score |-> 10 * Len(hits) + 15 * Len(matched),
         matched_skills |-> [i \in 1..Len(matched) |-> matched[i].name]]

\* C25: the score of an agent is 1.0 times the number of its tags in the
\* request plus 1.5 times the number of its skills with a keyword of their
\* own in the request, the matched list names exactly those skills, and
\* neither depends on the other agents of the registry.
C25_ScoreFromOwnCard ==
    Analyzed =>
       /\ \A n \in 1..Len(agents) :
             RecordedScore(agents[n].id) = OwnScore(request, agents[n].card).score
       /\ state.reasoning.skills =
             OwnScore(request, Get(agents, state.selected_agent)).matched_skills

\* The aggregate node has produced the response process_multi_agent_request
\* returns
Aggregated == pc = "m_aggregate" /\ pc' = "done" /\ result'.success

\* The result stored for step i of the plan (counted from 1)
StepResult(i) == ResultOr(mstate.intermediate_results, mstate.execution_plan[i].output_key)

\* C26: the aggregated response of a plan of several steps that met no error
\* lists each step's agent name and result in plan order and gives the last
\* step's result as the final answer; of a one-step plan, it gives that step's
\* result; after an error it is failure-tagged and carries the recorded error.
C26_AggregatedResponse ==
    [][Aggregated =>
         LET plan == mstate.execution_plan
             response == result'.response
         IN  IF HasError(mstate)
             THEN response = [kind |-> "Multi-agent execution failed",
                              error |-> mstate.error]
             ELSE /\ \A i \in 1..Len(plan) :
                        HasResult(mstate.intermediate_results, plan[i].output_key)
                  /\ Len(plan) > 1 =>
                        /\ response.kind = "Multi-Agent Collaboration Result"
                        /\ response.steps =
                              [i \in 1..Len(plan) |->
                                 [agent_name |-> Get(agents, plan[i].agent_id).name,
                                  result |-> StepResult(i)]]
                        /\ response.final_answer = <<StepResult(Len(plan))>>
                  /\ Len(plan) = 1 =>
                        /\ response.kind = "routed"
                        /\ response.agent_name = Get(agents, plan[1].agent_id).name
                        /\ response.text = StepResult(1)]_vars

\* A plan of two steps has been aggregated, the two results being different
C26_Witness ==
    /\ pc = "done"
    /\ result.op = "process_multi_agent_request"
    /\ result.success
    /\ ~HasError(mstate)
    /\ result.response.kind = "Multi-Agent Collaboration Result"
    /\ Len(result.response.steps) = 2
    /\ result.response.steps[1].result # result.response.steps[2].result
    /\ result.response.steps[1].agent_name # result.response.steps[2].agent_name
    /\ result.response.final_answer = <<result.response.steps[2].result>>

\* The three tables are those of one registry: both derived tables are the
\* rebuild over the agents
OneSnapshot(tables) ==
    /\ tables.skill_keywords = _update_skill_keywords(tables.agents)
    /\ tables.capability_registry =
          _update_capability_registry(tables.agents, hashSeed)

\* The agent is in the registry with this card and under every keyword of the
\* card that the index holds
Indexed(id, card) ==
    /\ HasKey(agents, id)
    /\ Get(agents, id) = card
    /\ \A caps \in {CardKeywords(card)} :
          /\ \E c \in caps : InSeq(id, CapAgents(capability_registry, c))
          /\ \A c \in caps :
                HasCap(capability_registry, c) => InSeq(id, CapAgents(capability_registry, c))

\* C27: with registrations, unregistrations and requests interleaved at the
\* awaits, the tables a request step reads are always those of one registry,
\* the one before or the one after each registry call; and of two
\* registrations of differently named agents that complete one after the
\* other, both agents end up in the registry and in the index.
C27_NoPartialRebuild ==
    /\ OneSnapshot(Tables)
    /\ last_call.op \in {"register_agent", "unregister_agent"} =>
          /\ OneSnapshot(last_call.before)
          /\ ~last_call.reply.success => Tables = last_call.before
    /\ (/\ last_call.op = "register_agent"
        /\ last_call.reply.success
        /\ last_call.before.agents # <<>>
        /\ ~HasKey(last_call.before.agents, last_call.reply.agent_id))
       => /\ Indexed(last_call.reply.agent_id, CardAt(last_call.arg))
          /\ \A n \in 1..Len(last_call.before.agents) :
                Indexed(last_call.before.agents[n].id, last_call.before.agents[n].card)

\* A registration has completed between the analysis and the routing of a
\* request, adding an agent next to the one the analysis selected
C27_Witness ==
    /\ pc = "route"
    /\ last_call.op = "register_agent"
    /\ last_call.reply.success
    /\ HasKey(last_call.before.agents, state.selected_agent)
    /\ ~HasKey(last_call.before.agents, last_call.reply.agent_id)
    /\ Len(agents) = 2

\* C28: once the cancellation of a request has been requested, no further step
\* of its plan is started.
C28_NoStepAfterCancel ==
    [][last_call.op = "cancel" => sent' = sent]_vars

\* C29: the polling loop of a remote call is bounded: while the call polls it
\* has made fewer than 30 tasks/get calls, each step of the loop is one more
\* call or the end of the remote call, and the 30th ends it.
C29_PollingBounded ==
    [][fwd.phase = "polling" =>
         /\ fwd.attempt < MaxPollAttempts
         /\ fwd' # fwd =>
               \/ fwd' = NoCall
               \/ /\ fwd' = [fwd EXCEPT !.attempt = fwd.attempt + 1]
                  /\ fwd'.attempt < MaxPollAttempts]_vars

\* A task stayed pending through the 30 polls and the call returned its
\* timeout text to the router
C29_Witness ==
    /\ pc = "return"
    /\ state.response.kind = "routed"
    /\ state.response.text = "Task did not complete within timeout"

\* C30: a user request is executed by remote agents along one path: the
\* router forwards it only if nothing was forwarded for it before, and the
\* plan forwards once for each of its steps.
C30_OnePathPerRequest ==
    [][/\ (pc = "route" /\ sent' # sent) => sent = <<>>
       /\ (pc = "m_execute" /\ sent' # sent) => Len(sent) = mstate.current_step]_vars

C32_StepsInPlanOrder ==
    pc \in {"m_execute", "step_call", "m_aggregate"} =>
       /\ Len(sent) \in {mstate.current_step, mstate.current_step + 1}
       /\ Len(sent) <= Len(mstate.execution_plan)
       /\ pc = "step_call" <=> fwd # NoCall
       /\ pc = "step_call" => Len(sent) = mstate.current_step + 1
       /\ (pc # "step_call" /\ Len(sent) = mstate.current_step + 1) => HasError(mstate)
       /\ \A k \in 1..Len(sent) :
             /\ Len(mstate.intermediate_results) >= k - 1
             /\ \A j \in 1..(k - 1) : mstate.intermediate_results[j].key = OutputKey(j - 1)
             /\ sent[k].task =
                   [original_request |-> request,
                    previous_results |-> SubSeq(mstate.intermediate_results, 1, k - 1),
                    task |-> mstate.execution_plan[k].task_description]

\* The second step of a plan is in flight
C32_Witness ==
    /\ pc = "step_call"
    /\ mstate.current_step = 1
    /\ Len(sent) = 2
    /\ Len(sent[2].task.previous_results) = 1

\* C33: while a plan is executed the plan stays as built, the cursor starts at
\* 0, moves only by +1 when a step's call returned and never passes the plan's
\* length, and the intermediate results only grow: their keys are the output
\* keys of the steps before the cursor and a stored result is kept as stored.
C33_Executing == pc \in {"m_execute", "step_call", "m_aggregate"}

C33_CursorAndResults ==
    /\ [](C33_Executing =>
             /\ mstate.current_step \in 0..Len(mstate.execution_plan)
             /\ Len(mstate.intermediate_results) = mstate.current_step
             /\ \A j \in 1..mstate.current_step :
                   mstate.intermediate_results[j].key = OutputKey(j - 1))
    /\ [][/\ (pc = "m_plan" /\ pc' = "m_execute") => mstate'.current_step = 0
          /\ (C33_Executing /\ pc' # "idle") =>
                /\ mstate'.execution_plan = mstate.execution_plan
                /\ mstate'.current_step \in {mstate.current_step, mstate.current_step + 1}
                /\ mstate'.current_step = mstate.current_step + 1 =>
                      /\ pc = "step_call"
                      /\ ~HasError(mstate')
                /\ SubSeq(mstate'.intermediate_results, 1, Len(mstate.intermediate_results))
                      = mstate.intermediate_results]_vars

\* Both steps of a two-step plan have stored their results
C33_Witness ==
    /\ pc = "m_aggregate"
    /\ mstate.current_step = 2
    /\ Len(mstate.intermediate_results) = 2

\* C34: a plan built without error is a linear chain with one step per
\* requirement in requirement order: step i is named step_i, writes
\* step_i_output, depends on step_0_output .. step_{i-1}_output in that order,
\* carries its requirement's description, and is assigned to an agent that is
\* registered when the plan is built.
C34_PlanIsLinearChain ==
    [][(pc = "m_plan" /\ pc' = "m_execute" /\ ~HasError(mstate')) =>
          /\ Len(mstate'.execution_plan) = Len(mstate.task_requirements)
          /\ \A k \in 1..Len(mstate'.execution_plan) :
                /\ mstate'.execution_plan[k].step_id = <<"step_", k - 1>>
                /\ mstate'.execution_plan[k].output_key = <<"step_", k - 1, "_output">>
                /\ mstate'.execution_plan[k].input_dependencies =
                      [j \in 1..(k - 1) |-> <<"step_", j - 1, "_output">>]
                /\ mstate'.execution_plan[k].task_description =
                      mstate.task_requirements[k].description
                /\ HasKey(agents, mstate'.execution_plan[k].agent_id)]_vars

\* A plan of two steps has just been built
C34_Witness ==
    /\ pc = "m_execute"
    /\ last_call = NoRegistryCall
    /\ ~HasError(mstate)
    /\ mstate.current_step = 0
    /\ Len(mstate.execution_plan) = 2
    /\ mstate.execution_plan[2].input_dependencies = <<OutputKey(0)>>

\* The capabilities of the registry that score above 0 against the text the
\* decomposer is given, best first
C35_Ranked(reg, text) ==
    SortedByScore(SelectSeq([i \in 1..Len(CapKeys(reg)) |->
                                [cap |-> CapKeys(reg)[i],
                                 score |-> _score_capability_match(Lower(text),
                                                                   CapKeys(reg)[i])]],
                            LAMBDA e : e.score > 0))

\* The j-th ranked capability can be the second requirement
C35_Second(reg, ranked, j) ==
    /\ ranked[j].score > 5
    /\ Disjoint(CapAgents(reg, ranked[j].cap), CapAgents(reg, ranked[1].cap))

\* C35: the decomposer answers with one or two requirements. Two requirements
\* are the top capability, scoring above 1.0, and the first capability after
\* it in descending score order that scores above 0.5 and shares no agent with
\* it, with priorities 1.0 and 0.9; when no such pair exists, or nothing
\* scores above 0, the answer is one requirement described by the whole text
\* the decomposer was given.
C35_Decomposition ==
    [][(pc = "m_analyze" /\ pc' = "m_plan" /\ RequestMatches(request)) =>
          \A ranked \in {C35_Ranked(capability_registry, original_request(request))} :
          \A reqs \in {mstate'.task_requirements} :
             /\ Len(reqs) \in {1, 2}
             /\ Len(reqs) = 2 =>
                   /\ ranked[1].score > 10
                   /\ reqs[1].capability_type = ranked[1].cap
                   /\ \E j \in 2..Len(ranked) :
                         /\ reqs[2].capability_type = ranked[j].cap
                         /\ C35_Second(capability_registry, ranked, j)
                         /\ \A m \in 2..(j - 1) : ~C35_Second(capability_registry, ranked, m)
                   /\ reqs[1].priority = 10
                   /\ reqs[2].priority = 9
             /\ (\/ ranked = <<>>
                 \/ ranked[1].score <= 10
                 \/ ~ \E j \in 2..Len(ranked) : C35_Second(capability_registry, ranked, j))
                => /\ Len(reqs) = 1
                   /\ reqs[1].description = Text("", <<>>, original_request(request))]_vars

\* The decomposer has answered with two requirements
C35_Witness ==
    /\ pc = "m_plan"
    /\ last_call = NoRegistryCall
    /\ Len(mstate.task_requirements) = 2
    /\ mstate.task_requirements[2].priority = 9

\* C36: the decomposer works on the request as submitted: whatever characters
\* the request holds, the requirements are those the decomposer gives for the
\* submitted text, and the request copied into a description is the submitted
\* text.
C36_RequestSurvivesPrompt ==
    [][(pc = "m_analyze" /\ pc' = "m_plan") =>
          /\ mstate'.task_requirements =
                _generic_pattern_matching(capability_registry, request,
                                          CapKeys(capability_registry))
          /\ mstate'.task_requirements[1].description.req = request]_vars

\* C37: an unregister call removes at most one agent, and removes an agent
\* only when the identifier is its id, its endpoint, its name in any case or a
\* non-empty part of its endpoint; the empty identifier removes nothing and
\* is answered with the not-found failure.
C37_UnregisterRemovesOnlyNamed ==
    [][last_call'.op = "unregister_agent" =>
          \A removed \in {{i \in 1..Len(agents) : ~HasKey(agents', agents[i].id)}} :
             /\ Cardinality(removed) <= 1
             /\ \A i \in removed :
                   \/ agents[i].id = last_call'.arg
                   \/ agents[i].card.url = last_call'.arg
                   \/ Lower(agents[i].card.name) = Lower(last_call'.arg)
                   \/ /\ last_call'.arg # <<>>
                      /\ Contains(last_call'.arg, agents[i].card.url)
             /\ last_call'.arg = <<>> =>
                   /\ removed = {}
                   /\ ~last_call'.reply.success]_vars

\* The execute node ends a run: after the remote call, or without one
C38_RunEnds ==
    \/ pc = "step_call" /\ pc' # "step_call"
    \/ pc = "m_execute" /\ pc' = "m_aggregate"

\* C38 as stated: every run of the execute node advances the cursor by one or
\* records an error.
C38_EveryRunAdvancesOrRecords ==
    [][C38_RunEnds =>
          \/ mstate'.current_step = mstate.current_step + 1
          \/ ~HasError(mstate) /\ HasError(mstate')]_vars

\* C38, amended: a multi-agent request whose remote calls are answered comes
\* to its result; the nodes run in the order analyze, plan, execute,
\* aggregate; a run of the execute node starts only with the cursor below
\* max(1, plan length), every earlier run having advanced it, so there are at
\* most max(1, plan length) runs; a run advances the cursor by one, records an
\* error, or, on the empty plan a failed planning left, changes nothing; the
\* aggregate node runs once and ends the request.
C38_MultiAgentRequestTerminates ==
    /\ (pc = "m_analyze") ~> (pc = "done")
    /\ [](pc = "m_execute" =>
             /\ mstate.current_step = 0 \/ mstate.current_step < Len(mstate.execution_plan)
             /\ HasError(mstate) => mstate.execution_plan = <<>>)
    /\ [][/\ pc = "m_analyze" => pc' \in {"m_analyze", "m_plan"}
          /\ pc = "m_plan" => pc' \in {"m_plan", "m_execute"}
          /\ pc = "m_execute" => pc' \in {"m_execute", "step_call", "m_aggregate"}
          /\ pc = "step_call" => pc' \in {"step_call", "m_execute", "m_aggregate"}
          /\ pc = "m_aggregate" => pc' \in {"m_aggregate", "done"}
          /\ (pc = "m_aggregate" /\ pc' = "done") => result'.returned
          /\ (pc = "done" /\ result.op = "process_multi_agent_request") =>
                pc' \in {"done", "idle"}
          /\ C38_RunEnds =>
                \/ mstate'.current_step = mstate.current_step + 1
                \/ ~HasError(mstate) /\ HasError(mstate')
                \/ mstate.execution_plan = <<>> /\ mstate' = mstate]_vars

\* A request on an empty registry has run the execute node on its empty plan
C38_Witness ==
    /\ pc = "m_aggregate"
    /\ last_call = NoRegistryCall
    /\ mstate.execution_plan = <<>>
    /\ HasError(mstate)

\* The event queue of a call holds events of the kinds the executor emits
EventKinds == {"task", "working", "artifact", "completed"}

\* The registry operation a command names: its first characters decide
C39_Operation(query) ==
    IF query = LIST_AGENTS THEN "get_available_agents"
    ELSE IF SubSeq(query, 1, 2) = <<"U", "N">> THEN "unregister_agent"
    ELSE "register_agent"

\* C39: a query that is LIST_AGENTS, or begins with REGISTER_AGENT: or
\* UNREGISTER_AGENT:, is answered by the registry operation it names and by
\* nothing else: no scoring state is written, nothing is sent to a remote
\* agent and no workflow is entered; LIST_AGENTS leaves the agents, the skill
\* keywords and the capability index as they are and ends with the completed
\* task.
C39_CommandsAreRegistryOperations ==
    [][\A query \in Commands : \A has_task, has_message \in BOOLEAN :
          ((has_task \/ has_message) /\ execute(query, has_task, has_message)) =>
             /\ last_call'.op = C39_Operation(query)
             /\ pc' = "idle"
             /\ sent' = sent
             /\ fwd' = fwd
             /\ state' = state
             /\ mstate' = mstate
             /\ result' = result
             /\ request' = request
             /\ events'[Len(events')] = Completed
             /\ query = LIST_AGENTS =>
                   /\ agents' = agents
                   /\ skill_keywords' = skill_keywords
                   /\ capability_registry' = capability_registry
                   /\ \E k \in 1..Len(events') :
                         /\ events'[k].kind = "artifact"
                         /\ events'[k].text.total_count = Len(agents)]_vars

\* The unregistration whose identifier reads like a request of two steps has
\* been answered
C39_Witness ==
    /\ pc = "idle"
    /\ last_call.op = "unregister_agent"
    /\ last_call.arg = R_add_then
    /\ events # <<>>
    /\ \A k \in 1..Len(events) : events[k].kind \in EventKinds

\* The call of execute in progress, or the last one, has completed its task
C40_TaskCompleted == events # <<>> /\ events[Len(events)] = Completed

\* C40: a call of execute that does not raise ends with the completed task;
\* what it puts on the queue is the new task first, and only when the context
\* had none, then status updates, then one artifact named orchestrator_result
\* and right after it the one completion, which is last; a failure the
\* orchestrator reports is the text of that artifact, and the task completes
\* all the same.
C40_ExecuteCompletesTheTask ==
    /\ (pc # "idle") ~> (pc = "idle" /\ C40_TaskCompleted)
    /\ [](\A k \in 1..Len(events) :
             /\ events[k].kind \in EventKinds
             /\ events[k].kind = "task" => k = 1
             /\ events[k].kind = "artifact" =>
                   /\ events[k].name = "orchestrator_result"
                   /\ k = Len(events) - 1
                   /\ events[k + 1] = Completed
             /\ events[k].kind = "completed" =>
                   /\ k = Len(events)
                   /\ k > 1
                   /\ events[k - 1].kind = "artifact"
                   /\ pc = "idle")
    /\ [][/\ \A query \in Requests \cup Commands : \A has_task \in BOOLEAN :
                execute(query, has_task, TRUE) =>
                   /\ (events' # <<>> /\ events'[1] = TaskEvent) <=> ~has_task
                   /\ pc' = "idle" => C40_TaskCompleted'
          /\ (pc = "done" /\ pc' = "idle") =>
                /\ C40_TaskCompleted'
                /\ SubSeq(events', 1, Len(events)) = events
                /\ ~result.success =>
                      events'[Len(events') - 1].text =
                         [status |-> "Error", error |-> result.error]
          /\ (pc # "idle" /\ pc' # "idle") =>
                SubSeq(events', 1, Len(events)) = events]_vars

\* A request the router could not route has been answered: the error is in
\* the artifact and the task is completed
C40_Witness ==
    /\ pc = "idle"
    /\ C40_TaskCompleted
    /\ events[1] = TaskEvent
    /\ "error" \in DOMAIN events[Len(events) - 1].text
    /\ events[Len(events) - 1].text.status = "Error"

=============================================================================
